---- MODULE Spec2Model ----
(***************************************************************************)
(* Dendrite growth engines: the L-system rewriting parser, the turtle      *)
(* interpreter and the space colonization solver, modelled as state        *)
(* machines and checked against the properties stated for them.            *)
(*                                                                         *)
(* Numbers.  The code computes in IEEE doubles.  The model keeps every     *)
(* quantity an integer by covering the inputs whose arithmetic is exact:   *)
(*   - angles are written in units of a quarter turn (90 degrees)      ,  *)
(*     so every rotation maps lattice vectors to lattice vectors;          *)
(*   - width is the exponent k of widthInitial * widthDecay^k;             *)
(*   - lengthDecay is an integer factor;                                   *)
(*   - colonization layouts are collinear (all y equal), where a unit      *)
(*     vector is a sign and distances compare by their squares.            *)
(* NaN (parseFloat of a non-number) is a value of its own that every       *)
(* arithmetic operation propagates, as in the code.                        *)
(***************************************************************************)
EXTENDS Integers, Sequences, FiniteSets, TLC

\* ------------------------------------------------------------------ bounds
\* longest enumerated symbol string handed to interpret()
MaxLen == 3
\* largest seed handed to a seeded constructor
MaxSeed == 1

\* ------------------------------------------------------------- numbers
Infinity == 1000000
NaN == 0 - 1000001
Null == 0

NAdd(a, b) == IF a = NaN \/ b = NaN THEN NaN ELSE a + b
NMul(a, b) == IF a = NaN \/ b = NaN THEN NaN ELSE a * b
NNeg(a) == IF a = NaN THEN NaN ELSE 0 - a
\* Math.min / Math.max: NaN if either argument is NaN
MathMin(a, b) == IF a = NaN \/ b = NaN THEN NaN ELSE IF a < b THEN a ELSE b
MathMax(a, b) == IF a = NaN \/ b = NaN THEN NaN ELSE IF a > b THEN a ELSE b

Last(s) == s[Len(s)]
Front(s) == SubSeq(s, 1, Len(s) - 1)
Range(s) == {s[k] : k \in 1..Len(s)}

RECURSIVE SeqsUpTo(_, _)
\* every sequence over S of length at most n
SeqsUpTo(S, n) ==
  IF n = 0 THEN {<<>>}
  ELSE LET shorter == SeqsUpTo(S, n - 1)
       IN shorter \cup {Append(q, c) : q \in {r \in shorter : Len(r) = n - 1}, c \in S}

\* ------------------------------------------------------------- vectors
Vec(x, y) == [x |-> x, y |-> y]

vec2Add(a, b) == Vec(NAdd(a.x, b.x), NAdd(a.y, b.y))
vec2Sub(a, b) == Vec(NAdd(a.x, NNeg(b.x)), NAdd(a.y, NNeg(b.y)))
vec2Scale(v, k) == Vec(NMul(v.x, k), NMul(v.y, k))

\* cos and sin of q quarter turns
CosQ(q) == CASE q % 4 = 0 -> 1 [] q % 4 = 2 -> 0 - 1 [] OTHER -> 0
SinQ(q) == CASE q % 4 = 1 -> 1 [] q % 4 = 3 -> 0 - 1 [] OTHER -> 0

\* vec2Rotate(v, degToRad(angle)), the angle in quarter turns
vec2Rotate(v, q) ==
  IF q = NaN THEN Vec(NaN, NaN)
  ELSE Vec(NAdd(NMul(v.x, CosQ(q)), NNeg(NMul(v.y, SinQ(q)))),
           NAdd(NMul(v.x, SinQ(q)), NMul(v.y, CosQ(q))))

createBounds == [min |-> Vec(Infinity, Infinity), max |-> Vec(0 - Infinity, 0 - Infinity)]

expandBounds(bounds, point) ==
  [min |-> Vec(MathMin(bounds.min.x, point.x), MathMin(bounds.min.y, point.y)),
   max |-> Vec(MathMax(bounds.max.x, point.x), MathMax(bounds.max.y, point.y))]

\* ------------------------------------------------------- seeded generator
\* random() returns RandNum / RandDen, RandNum in 0 .. RandDen-1
RandDen == 4
RandMod == 16
NoSeed == 0 - 1

\* s = Math.sin(s) * 10000: a fixed scrambling of the closure's state; the
\* model scrambles over a finite ring instead of the doubles
\* (sin(0) = 0, so state 0 is a fixed point that hands out 0 for ever)
Scramble(s) == IF s = 0 THEN 0 ELSE 1 + ((5 * s + 2) % (RandMod - 1))
\* s - Math.floor(s): the fraction handed out
Fraction(s) == s % RandDen

\* the generator built by the constructor: [seed, s]; seed = NoSeed is
\* Math.random, whose draws are any value
seededRandom(seed) == [seed |-> seed, s |-> seed]
NewRandom(seed) == IF seed = NoSeed THEN [seed |-> NoSeed, s |-> 0] ELSE seededRandom(seed)

\* a random() that ignores the seeded state
RandomValueUnseeded(rng, any) == any

\* one call of this.random(): the generator after the call and the value
\* returned; any is the value Math.random would return
RandomNext(rng, any) == IF rng.seed = NoSeed THEN rng ELSE [rng EXCEPT !.s = Scramble(rng.s)]
RandomValue(rng, any) == IF rng.seed = NoSeed THEN any ELSE Fraction(Scramble(rng.s))

\* ------------------------------------------------------ turtle interpreter
Digits == <<"0", "1", "2", "3", "4", "5", "6", "7", "8", "9">>
IsDigit(c) == \E d \in 1..10 : Digits[d] = c
DigitValue(c) == (CHOOSE d \in 1..10 : Digits[d] = c) - 1

RECURSIVE DecimalValue(_)
DecimalValue(chars) ==
  IF Len(chars) = 0 THEN 0
  ELSE 10 * DecimalValue(Front(chars)) + DigitValue(Last(chars))

\* parseFloat on a string of sign and digit characters: the longest numeric
\* prefix, NaN when there is none
parseFloat(chars) ==
  LET signed == Len(chars) > 0 /\ chars[1] \in {"+", "-"}
      start == IF signed THEN 2 ELSE 1
      stops == {k \in start..Len(chars) : ~IsDigit(chars[k])}
      stop == IF stops = {} THEN Len(chars)
              ELSE (CHOOSE k \in stops : \A j \in stops : k <= j) - 1
      digits == SubSeq(chars, start, stop)
  IN IF Len(digits) = 0 THEN NaN
     ELSE IF signed /\ chars[1] = "-" THEN 0 - DecimalValue(digits)
     ELSE DecimalValue(digits)

\* str.indexOf(')', i), indices counted from 0; -1 when there is none
indexOfClose(str, i) ==
  LET hits == {k \in i..(Len(str) - 1) : str[k + 1] = ")"}
  IN IF hits = {} THEN 0 - 1 ELSE CHOOSE k \in hits : \A j \in hits : k <= j

\* LSystemParameters of an interpreter
TurtleParams(angle, variance) ==
  [angle |-> angle, stepLength |-> 2, lengthDecay |-> 2, angleVariance |-> variance]

\* new TurtleInterpreter(params, seed)
NewTurtle(params, seed) ==
  [params |-> params, random |-> NewRandom(seed), pc |-> "idle",
   str |-> <<>>, i |-> 0, nodes |-> <<>>, segments |-> <<>>, roots |-> <<>>,
   bounds |-> createBounds,
   state |-> [position |-> Vec(0, 0), heading |-> Vec(0, 0 - 1), width |-> 0,
              depth |-> 0, nodeId |-> Null],
   stack |-> <<>>, currentStepLength |-> 0, age |-> 0, marks |-> <<>>]

\* interpret(): locals set up and the root node created, up to the loop
InterpretBegin(t, str, startPos) ==
  LET state == [position |-> startPos, heading |-> Vec(0, 0 - 1), width |-> 0,
                depth |-> 0, nodeId |-> 1]
      root == [id |-> 1, position |-> startPos, parent |-> Null, children |-> <<>>,
               depth |-> 0, order |-> 0, age |-> 0]
  IN [t EXCEPT !.pc = "loop", !.str = str, !.i = 0,
               !.nodes = <<root>>, !.segments = <<>>, !.roots = <<1>>,
               !.bounds = expandBounds(createBounds, startPos),
               !.state = state, !.stack = <<>>,
               !.currentStepLength = t.params.stepLength, !.age = 0, !.marks = <<>>]

\* DrawForward that forgets the segment of the new node
DrawForwardNoSegment(t, hasParam, param) ==
  LET state == t.state
      stepLen == IF hasParam THEN param ELSE t.currentStepLength
      newPos == vec2Add(state.position,
                        Vec(NMul(state.heading.x, stepLen), NMul(state.heading.y, stepLen)))
      newNodeId == Len(t.nodes) + 1
      newNode == [id |-> newNodeId, position |-> newPos, parent |-> state.nodeId,
                  children |-> <<>>, depth |-> state.depth, order |-> 0, age |-> t.age]
      linked == IF state.nodeId # Null /\ state.nodeId \in DOMAIN t.nodes
                THEN [t.nodes EXCEPT ![state.nodeId].children = Append(@, newNodeId)]
                ELSE t.nodes
  IN [t EXCEPT !.nodes = Append(linked, newNode),
               !.bounds = expandBounds(t.bounds, newPos),
               !.age = @ + 1,
               !.state = [state EXCEPT !.position = newPos, !.nodeId = newNodeId]]

\* case 'F' / 'G'
DrawForward(t, hasParam, param) ==
  LET state == t.state
      stepLen == IF hasParam THEN param ELSE t.currentStepLength
      newPos == vec2Add(state.position,
                        Vec(NMul(state.heading.x, stepLen), NMul(state.heading.y, stepLen)))
      newNodeId == Len(t.nodes) + 1
      newNode == [id |-> newNodeId, position |-> newPos, parent |-> state.nodeId,
                  children |-> <<>>, depth |-> state.depth, order |-> 0, age |-> t.age]
      linked == IF state.nodeId # Null /\ state.nodeId \in DOMAIN t.nodes
                THEN [t.nodes EXCEPT ![state.nodeId].children = Append(@, newNodeId)]
                ELSE t.nodes
  IN [t EXCEPT !.nodes = Append(linked, newNode),
               !.bounds = expandBounds(t.bounds, newPos),
               !.segments = IF state.nodeId # Null
                            THEN Append(@, [start |-> state.nodeId, end |-> newNodeId])
                            ELSE @,
               !.age = @ + 1,
               !.state = [state EXCEPT !.position = newPos, !.nodeId = newNodeId]]

\* case 'f' / 'g'
MoveForward(t, hasParam, param) ==
  LET state == t.state
      stepLen == IF hasParam THEN param ELSE t.currentStepLength
  IN [t EXCEPT !.state = [state EXCEPT
        !.position = vec2Add(state.position,
                             Vec(NMul(state.heading.x, stepLen), NMul(state.heading.y, stepLen))),
        !.nodeId = Null]]

\* (this.random() - 0.5) * 2 * angleVariance, exact for the even variances
\* the model uses
Jitter(t, any) == ((2 * RandomValue(t.random, any) - RandDen) * t.params.angleVariance) \div RandDen

\* case '+' (sign 1) and case '-' (sign -1)
Turn(t, hasParam, param, any, sign) ==
  LET angle == IF hasParam THEN param ELSE t.params.angle
      turned == NMul(sign, NAdd(angle, Jitter(t, any)))
  IN [t EXCEPT !.random = RandomNext(t.random, any),
               !.state.heading = vec2Rotate(t.state.heading, turned)]

\* case '[': marks is a history variable, the turtle state as it was when
\* each still open '[' was executed
PushState(t) ==
  [t EXCEPT !.stack = Append(@, t.state),
            !.marks = Append(@, t.state),
            !.state.depth = @ + 1,
            !.state.width = @ + 1]

\* PopState that restores everything but the depth
PopStateKeepDepth(t) ==
  IF Len(t.stack) > 0
  THEN [t EXCEPT !.state = [Last(t.stack) EXCEPT !.depth = t.state.depth],
                 !.stack = Front(t.stack), !.marks = Front(t.marks)]
  ELSE t

\* case ']'
PopState(t) ==
  IF Len(t.stack) > 0
  THEN [t EXCEPT !.state = Last(t.stack), !.stack = Front(t.stack), !.marks = Front(t.marks)]
  ELSE t

\* case '@'
SetStepLength(t, hasParam, param) ==
  IF hasParam /\ param # NaN /\ param # 0
  THEN [t EXCEPT !.currentStepLength = param]
  ELSE [t EXCEPT !.currentStepLength = @ * t.params.lengthDecay]

\* the parameter check of one loop iteration: <<hasParam, param, index of the
\* last character consumed>>
ReadParam(str, i) ==
  LET paren == i + 1 < Len(str) /\ str[i + 2] = "("
      closeIdx == IF paren THEN indexOfClose(str, i) ELSE 0 - 1
  IN IF paren /\ closeIdx > i
     THEN <<TRUE, parseFloat(SubSeq(str, i + 3, closeIdx)), closeIdx>>
     ELSE <<FALSE, 0, i>>

\* one iteration of the while loop of interpret()
InterpretStep(t, any) ==
  LET char == t.str[t.i + 1]
      rp == ReadParam(t.str, t.i)
      hasParam == rp[1]
      param == rp[2]
      done == CASE char \in {"F", "G"} -> DrawForward(t, hasParam, param)
                [] char \in {"f", "g"} -> MoveForward(t, hasParam, param)
                [] char = "+" -> Turn(t, hasParam, param, any, 1)
                [] char = "-" -> Turn(t, hasParam, param, any, 0 - 1)
                [] char = "[" -> PushState(t)
                [] char = "]" -> PopState(t)
                [] char = "!" -> [t EXCEPT !.state.width = @ + 1]
                [] char = "|" -> [t EXCEPT !.state.heading = vec2Rotate(@, 2)]
                [] char = "@" -> SetStepLength(t, hasParam, param)
                [] char = "#" -> [t EXCEPT !.state.width = @ - 1]
                [] OTHER -> t
  IN [done EXCEPT !.i = rp[3] + 1]

SetMax(S) == CHOOSE m \in S : \A k \in S : k <= m

RECURSIVE calculate(_, _)
\* the Strahler number calculate(nodeId) returns; the calculated set of the
\* code only spares recomputation
calculate(nodes, nodeId) ==
  IF nodeId \notin DOMAIN nodes THEN 0
  ELSE IF Len(nodes[nodeId].children) = 0 THEN 1
  ELSE LET children == nodes[nodeId].children
           childOrders == [k \in 1..Len(children) |-> calculate(nodes, children[k])]
           maxOrder == SetMax(Range(childOrders))
           countMax == Cardinality({k \in 1..Len(children) : childOrders[k] = maxOrder})
       IN IF countMax >= 2 THEN maxOrder + 1 ELSE maxOrder

RECURSIVE Visited(_, _)
\* the nodes calculate() reaches from nodeId: itself and its descendants
Visited(nodes, nodeId) ==
  IF nodeId \notin DOMAIN nodes THEN {}
  ELSE {nodeId} \cup UNION {Visited(nodes, nodes[nodeId].children[k]) :
                              k \in 1..Len(nodes[nodeId].children)}

\* calculateStrahlerOrder(nodes, roots): order is written to the nodes
\* reached from the roots, every other node keeps the order it had
calculateStrahlerOrder(nodes, roots) ==
  LET reached == UNION {Visited(nodes, roots[k]) : k \in 1..Len(roots)}
  IN [id \in DOMAIN nodes |->
        IF id \in reached THEN [nodes[id] EXCEPT !.order = calculate(nodes, id)]
        ELSE nodes[id]]

\* the end of interpret(): orders computed, the graph returned
InterpretReturn(t) ==
  [t EXCEPT !.pc = "done", !.nodes = calculateStrahlerOrder(t.nodes, t.roots)]

\* ------------------------------------------------------------ L-system parser
\* a ProductionRule; "" stands for an absent context or condition, NoProb
\* for an absent probability; probabilities are integer weights
NoProb == 0 - 1
Rule(pred, succ) ==
  [predecessor |-> pred, successor |-> succ, probability |-> NoProb,
   condition |-> "", leftContext |-> "", rightContext |-> ""]

RECURSIVE NatChars(_)
NatChars(n) == IF n < 10 THEN <<Digits[n + 1]>> ELSE Append(NatChars(n \div 10), Digits[(n % 10) + 1])

\* Number.prototype.toString for the integers and NaN
NumberToString(n) ==
  IF n = NaN THEN <<"N", "a", "N">>
  ELSE IF n < 0 THEN <<"-">> \o NatChars(0 - n) ELSE NatChars(n)

RECURSIVE split(_)
\* paramStr.split(','): the pieces between the commas, at least one
split(chars) ==
  LET commas == {k \in 1..Len(chars) : chars[k] = ","}
  IN IF commas = {} THEN <<chars>>
     ELSE LET c == CHOOSE k \in commas : \A j \in commas : k <= j
          IN <<SubSeq(chars, 1, c - 1)>> \o split(SubSeq(chars, c + 1, Len(chars)))

RECURSIVE join(_)
\* params.join(',')
join(params) ==
  IF Len(params) = 0 THEN <<>>
  ELSE IF Len(params) = 1 THEN NumberToString(params[1])
  ELSE NumberToString(params[1]) \o <<",">> \o join(Tail(params))

RECURSIVE tokenizeFrom(_, _)
\* the while loop of tokenize(), from index i (counted from 0)
tokenizeFrom(input, i) ==
  IF i >= Len(input) THEN <<>>
  ELSE LET char == input[i + 1]
           paren == i + 1 < Len(input) /\ input[i + 2] = "("
           closeIdx == IF paren THEN indexOfClose(input, i) ELSE 0 - 1
       IN IF paren /\ closeIdx > i
          THEN LET pieces == split(SubSeq(input, i + 3, closeIdx))
                   params == [k \in 1..Len(pieces) |-> parseFloat(pieces[k])]
               IN <<[symbol |-> char, hasParams |-> TRUE, params |-> params]>>
                    \o tokenizeFrom(input, closeIdx + 1)
          ELSE <<[symbol |-> char, hasParams |-> FALSE, params |-> <<>>]>>
                 \o tokenizeFrom(input, i + 1)

tokenize(input) == tokenizeFrom(input, 0)

\* evaluateCondition on the guards of the model: a comparison of s with a
\* literal, and a guard that does not compile (the catch branch: true)
evaluateConditionStrict(condition, params) ==
  CASE condition = "s>1" -> params[1] # NaN /\ params[1] > 1
    [] condition = "s<1" -> params[1] # NaN /\ params[1] < 1
    [] OTHER -> FALSE
evaluateCondition(condition, params) ==
  CASE condition = "s>1" -> params[1] # NaN /\ params[1] > 1
    [] condition = "s<1" -> params[1] # NaN /\ params[1] < 1
    [] OTHER -> TRUE

\* applyParametricRule: the successors of the model hold no parenthesised
\* expression, so the replace() finds nothing to rewrite
applyParametricRule(rule, params) == rule.successor

\* RuleMatches that never looks at the left context
RuleMatchesNoLeft(rule, symbol, left, right) ==
  /\ Len(rule.predecessor) > 0
  /\ rule.predecessor[1] = symbol.symbol
  /\ ~(rule.rightContext # "" /\ (right = "" \/ right # rule.rightContext))
  /\ ~(rule.condition # "" /\ symbol.hasParams
        /\ ~evaluateCondition(rule.condition, symbol.params))

\* the filter of findReplacement; left and right are the neighbours' symbols,
\* "" at the ends of the string
RuleMatches(rule, symbol, left, right) ==
  /\ Len(rule.predecessor) > 0
  /\ rule.predecessor[1] = symbol.symbol
  /\ ~(rule.leftContext # "" /\ (left = "" \/ left # rule.leftContext))
  /\ ~(rule.rightContext # "" /\ (right = "" \/ right # rule.rightContext))
  /\ ~(rule.condition # "" /\ symbol.hasParams
        /\ ~evaluateCondition(rule.condition, symbol.params))

Weight(rule) == IF rule.probability = NoProb THEN 0 ELSE rule.probability

RECURSIVE SumWeights(_)
SumWeights(rules) == IF Len(rules) = 0 THEN 0 ELSE Weight(rules[1]) + SumWeights(Tail(rules))

\* selectStochasticRule for the draw value / RandDen: the first rule at which
\* rand, less the weights so far, is <= 0; the last rule otherwise
selectStochasticRule(rules, params, value) ==
  LET total == SumWeights(rules)
      hits == {k \in 1..Len(rules) :
                 value * total - RandDen * SumWeights(SubSeq(rules, 1, k)) <= 0}
  IN IF hits = {} THEN applyParametricRule(rules[Len(rules)], params)
     ELSE applyParametricRule(rules[CHOOSE k \in hits : \A j \in hits : k <= j], params)

\* findReplacement: [out, random], the replacement and the generator after it
findReplacement(rules, random, any, symbol, left, right) ==
  LET matchingRules == SelectSeq(rules, LAMBDA r : RuleMatches(r, symbol, left, right))
  IN IF Len(matchingRules) = 0
     THEN [out |-> IF symbol.hasParams
                   THEN <<symbol.symbol, "(">> \o join(symbol.params) \o <<")">>
                   ELSE <<symbol.symbol>>,
           random |-> random]
     ELSE IF \E k \in 1..Len(matchingRules) : matchingRules[k].probability # NoProb
     THEN [out |-> selectStochasticRule(matchingRules, symbol.params,
                                        RandomValue(random, any)),
           random |-> RandomNext(random, any)]
     ELSE [out |-> applyParametricRule(matchingRules[1], symbol.params),
           random |-> random]

\* new LSystemParser({axiom, rules}, seed)
NewParser(axiom, rules, seed) ==
  [axiom |-> axiom, rules |-> rules, random |-> NewRandom(seed), pc |-> "idle",
   iterations |-> 0, i |-> 0, current |-> <<>>, symbols |-> <<>>, k |-> 0,
   result |-> <<>>, returned |-> <<>>]

\* ParseBegin whose loop counter starts at 1
ParseBeginFromOne(p, iterations) ==
  [p EXCEPT !.pc = "for", !.iterations = iterations, !.i = 1, !.current = p.axiom]

\* parse(iterations) is entered
ParseBegin(p, iterations) ==
  [p EXCEPT !.pc = "for", !.iterations = iterations, !.i = 0, !.current = p.axiom]

\* applyRules(current) is entered: the input generation is tokenized once
ApplyRulesBegin(p) ==
  [p EXCEPT !.pc = "symbols", !.symbols = tokenize(p.current), !.k = 0, !.result = <<>>]

\* one pass of the for loop of applyRules
ApplyRulesStep(p, any) ==
  LET symbols == p.symbols
      k == p.k
      left == IF k > 0 THEN symbols[k].symbol ELSE ""
      right == IF k < Len(symbols) - 1 THEN symbols[k + 2].symbol ELSE ""
      found == findReplacement(p.rules, p.random, any, symbols[k + 1], left, right)
  IN [p EXCEPT !.result = @ \o found.out, !.random = found.random, !.k = k + 1]

\* applyRules returns into the loop of parse
ApplyRulesEnd(p) == [p EXCEPT !.pc = "for", !.current = p.result, !.i = @ + 1]

\* parse returns current; returned is the history of the instance's calls
ParseReturn(p) ==
  [p EXCEPT !.pc = "idle",
            !.returned = Append(@, [iterations |-> p.iterations, value |-> p.current])]

\* ------------------------------------------------------- space colonization
Sign(n) == IF n > 0 THEN 1 ELSE IF n < 0 THEN 0 - 1 ELSE 0

\* vec2Normalize on the axis-aligned vectors of a collinear layout
vec2Normalize(v) ==
  CASE v.x = 0 /\ v.y = 0 -> Vec(0, 0)
    [] v.y = 0 /\ v.x # 0 -> Vec(Sign(v.x), 0)
    [] v.x = 0 /\ v.y # 0 -> Vec(0, Sign(v.y))

\* the square of vec2Distance(a, b)
DistanceSq(a, b) == (b.x - a.x) * (b.x - a.x) + (b.y - a.y) * (b.y - a.y)

\* vec2Distance(a, b) < d
CloserThan(a, b, d) == d > 0 /\ DistanceSq(a, b) < d * d

NoBias == [present |-> FALSE, v |-> Vec(0, 0)]
Bias(v) == [present |-> TRUE, v |-> v]

\* new SpaceColonization(config, onProgress): initializeAttractors for the
\* 'painted' source (none yet) and initializeSeeds
NewSolver(config, onProgress) ==
  [config |-> config, onProgress |-> onProgress,
   attractors |-> <<>>,
   nodes |-> [k \in 1..Len(config.seeds) |->
                [id |-> k, position |-> config.seeds[k], parent |-> Null,
                 children |-> <<>>, influenceDirection |-> Vec(0, 0),
                 influenceCount |-> 0]],
   pc |-> "idle", iteration |-> 0, executed |-> 0,
   reports |-> <<>>, graph |-> [nodes |-> <<>>, segments |-> <<>>, roots |-> <<>>,
                                bounds |-> createBounds]]

addAttractor(c, position) ==
  [c EXCEPT !.attractors = Append(@, [position |-> position, active |-> TRUE])]

\* keeps the attractors farther than radius from center
removeAttractorsInRadius(c, center, radius) ==
  [c EXCEPT !.attractors =
     SelectSeq(@, LAMBDA a : radius < 0 \/ DistanceSq(a.position, center) > radius * radius)]

\* closestNode without the attractionDistance test
closestNodeAnyDistance(nodes, attractor, attractionDistance) ==
  LET nearest == {k \in 1..Len(nodes) : \A j \in 1..Len(nodes) :
                    DistanceSq(nodes[k].position, attractor.position)
                      <= DistanceSq(nodes[j].position, attractor.position)}
  IN IF nearest = {} THEN Null ELSE CHOOSE k \in nearest : \A j \in nearest : k <= j

\* the inner loop of the association step: the node an attractor is
\* associated with, Null when none is within attractionDistance; the first
\* of the nearest nodes in the order of the node table
closestNode(nodes, attractor, attractionDistance) ==
  LET near == {k \in 1..Len(nodes) :
                 CloserThan(nodes[k].position, attractor.position, attractionDistance)}
      nearest == {k \in near : \A j \in near :
                    DistanceSq(nodes[k].position, attractor.position)
                      <= DistanceSq(nodes[j].position, attractor.position)}
  IN IF near = {} THEN Null ELSE CHOOSE k \in nearest : \A j \in nearest : k <= j

RECURSIVE associateInactive(_, _, _, _)
\* an association loop over all the attractors, the inactive ones included
associateInactive(nodes, attractors, a, attractionDistance) ==
  IF a > Len(attractors) THEN nodes
  ELSE LET n == closestNode(nodes, attractors[a], attractionDistance)
           dir == vec2Normalize(vec2Sub(attractors[a].position, nodes[n].position))
       IN IF n = Null THEN associateInactive(nodes, attractors, a + 1, attractionDistance)
          ELSE associateInactive([nodes EXCEPT ![n].influenceDirection = vec2Add(@, dir),
                                               ![n].influenceCount = @ + 1],
                                 attractors, a + 1, attractionDistance)

RECURSIVE associate(_, _, _, _)
\* the association loop over activeAttractors from index a on
associate(nodes, attractors, a, attractionDistance) ==
  IF a > Len(attractors) THEN nodes
  ELSE IF ~attractors[a].active THEN associate(nodes, attractors, a + 1, attractionDistance)
  ELSE LET n == closestNode(nodes, attractors[a], attractionDistance)
           dir == vec2Normalize(vec2Sub(attractors[a].position, nodes[n].position))
       IN IF n = Null THEN associate(nodes, attractors, a + 1, attractionDistance)
          ELSE associate([nodes EXCEPT ![n].influenceDirection = vec2Add(@, dir),
                                       ![n].influenceCount = @ + 1],
                         attractors, a + 1, attractionDistance)

\* the direction an influenced node grows in
growDir(node, growthBias) ==
  LET dir == vec2Normalize(node.influenceDirection)
  IN IF growthBias.present
     \* normalize(dir + 0.3 * bias) = normalize(10 * dir + 3 * bias)
     THEN vec2Normalize(vec2Add(vec2Scale(dir, 10), vec2Scale(growthBias.v, 3)))
     ELSE dir

\* the growth step: every influenced node gets one child; the new nodes
\* are added to the table after the loop
grow(nodes, stepSize, growthBias) ==
  LET influenced == {k \in 1..Len(nodes) : nodes[k].influenceCount > 0}
      rank(k) == Cardinality({j \in influenced : j <= k})
      newId(k) == Len(nodes) + rank(k)
      parentOf(id) == CHOOSE k \in influenced : newId(k) = id
      total == Len(nodes) + Cardinality(influenced)
  IN [id \in 1..total |->
        IF id <= Len(nodes)
        THEN IF id \in influenced
             THEN [nodes[id] EXCEPT !.children = Append(@, newId(id))]
             ELSE nodes[id]
        ELSE LET node == nodes[parentOf(id)]
             IN [id |-> id,
                 position |-> vec2Add(node.position,
                                      vec2Scale(growDir(node, growthBias), stepSize)),
                 parent |-> node.id, children |-> <<>>,
                 influenceDirection |-> Vec(0, 0), influenceCount |-> 0]]

\* the kill step over the attractors that were active when the iteration began
kill(attractors, nodes, killDistance) ==
  [a \in 1..Len(attractors) |->
     IF attractors[a].active
        /\ \E k \in 1..Len(nodes) :
             CloserThan(nodes[k].position, attractors[a].position, killDistance)
     THEN [attractors[a] EXCEPT !.active = FALSE]
     ELSE attractors[a]]

RECURSIVE calculateDepth(_, _)
\* the number of parent links from nodeId up to a node without a parent
calculateDepth(nodes, nodeId) ==
  IF nodes[nodeId].parent = Null THEN 0
  ELSE 1 + calculateDepth(nodes, nodes[nodeId].parent)

\* buildGraph(): branch nodes, roots, segments and bounds of the node table
buildGraph(c) ==
  LET nodes == c.nodes
      ids == 1..Len(nodes)
      branchNodes == [id \in ids |->
                        [id |-> id, position |-> nodes[id].position,
                         parent |-> nodes[id].parent, children |-> nodes[id].children,
                         depth |-> calculateDepth(nodes, id), order |-> 0, age |-> 0]]
      roots == SelectSeq([id \in ids |-> id], LAMBDA id : nodes[id].parent = Null)
      withParent == SelectSeq([id \in ids |-> id], LAMBDA id : nodes[id].parent # Null)
      segments == [k \in 1..Len(withParent) |->
                     [start |-> nodes[withParent[k]].parent, end |-> withParent[k]]]
      boundsUpTo[k \in 0..Len(nodes)] ==
        IF k = 0 THEN createBounds ELSE expandBounds(boundsUpTo[k - 1], nodes[k].position)
  IN [nodes |-> calculateStrahlerOrder(branchNodes, roots), segments |-> segments,
      roots |-> roots, bounds |-> boundsUpTo[Len(nodes)]]

\* a loop condition that lets one iteration too many through
loopConditionInclusive(c) == c.iteration <= c.config.parameters.maxIterations

\* iteration < maxIterations, the condition of the for loop of run()
loopCondition(c) == c.iteration < c.config.parameters.maxIterations

AnyActive(attractors) == \E a \in 1..Len(attractors) : attractors[a].active

\* if (this.onProgress && iteration % 5 === 0)
progressDueAlways(c) == c.onProgress
progressDue(c) == c.onProgress /\ c.iteration % 5 = 0

\* the graphs handed to the callback so far, as the callback sees them once
\* the node table is nodes: buildGraph() gives a branch node the children
\* array of the internal node itself, not a copy, so the ids run() pushes to
\* it later show in the graph as well
Aliased(reports, nodes) ==
  [r \in DOMAIN reports |->
     [reports[r] EXCEPT !.graph.nodes =
        [id \in DOMAIN @ |-> [@[id] EXCEPT !.children = nodes[id].children]]]]

\* one executed body of the for loop of run()
RunIteration(c) ==
  LET parameters == c.config.parameters
      reset == [k \in 1..Len(c.nodes) |->
                  [c.nodes[k] EXCEPT !.influenceDirection = Vec(0, 0), !.influenceCount = 0]]
      associated == associate(reset, c.attractors, 1, parameters.attractionDistance)
      grown == grow(associated, parameters.stepSize, parameters.growthBias)
      killed == kill(c.attractors, grown, parameters.killDistance)
      after == [c EXCEPT !.nodes = grown, !.attractors = killed]
  IN [after EXCEPT !.reports = IF progressDue(c)
                               THEN Append(Aliased(@, grown),
                                           [iteration |-> c.iteration,
                                            graph |-> buildGraph(after)])
                               ELSE Aliased(@, grown),
                   !.iteration = @ + 1,
                   !.executed = @ + 1]

\* run() leaves the loop and returns buildGraph()
RunReturn(c) == [c EXCEPT !.pc = "done", !.graph = buildGraph(c)]

\* ----------------------------------------------------------- framebuffers
\* FramebufferOptions; "" stands for an absent filter or wrap
Options(width, height, format, filter, wrap) ==
  [width |-> width, height |-> height, format |-> format, filter |-> filter, wrap |-> wrap]

\* new Framebuffer(gl, options): the object keeps width, height and format;
\* disposed counts the calls of dispose()
Framebuffer(options) ==
  [width |-> options.width, height |-> options.height, format |-> options.format,
   disposed |-> 0]

\* the key acquire() looks up
getKey(options) ==
  <<options.width, options.height, options.format,
    IF options.filter = "" THEN "linear" ELSE options.filter,
    IF options.wrap = "" THEN "repeat" ELSE options.wrap>>

\* the key release() stores under
releaseKey(fb) == <<fb.width, fb.height, fb.format>>

\* this.pool.get(key) || []
Available(p, key) == IF key \in DOMAIN p.pool THEN p.pool[key] ELSE <<>>

\* this.pool.set(key, available)
PoolSet(pool, key, available) ==
  [k \in DOMAIN pool \cup {key} |-> IF k = key THEN available ELSE pool[k]]

\* new FramebufferPool(gl); fbs are the framebuffers allocated so far, a
\* framebuffer's id its index; last is the latest acquire() and its result
NewPool ==
  [pc |-> "on", pool |-> [k \in {} |-> <<>>], inUse |-> {}, fbs |-> <<>>,
   last |-> [options |-> Options(0, 0, "", "", ""), fb |-> Null]]

\* acquire(options)
acquire(p, options) ==
  LET key == getKey(options)
      available == Available(p, key)
      reuse == Len(available) > 0
      fb == IF reuse THEN Last(available) ELSE Len(p.fbs) + 1
  IN [p EXCEPT !.pool = IF reuse THEN PoolSet(@, key, Front(available)) ELSE @,
               !.fbs = IF reuse THEN @ ELSE Append(@, Framebuffer(options)),
               !.inUse = @ \cup {fb},
               !.last = [options |-> options, fb |-> fb]]

\* a release(fb) without the test that fb is in use
releaseUnchecked(p, fb) ==
  LET key == releaseKey(p.fbs[fb])
  IN [p EXCEPT !.inUse = @ \ {fb},
               !.pool = PoolSet(@, key, Append(Available(p, key), fb))]

\* release(fb)
release(p, fb) ==
  IF fb \notin p.inUse THEN p
  ELSE LET key == releaseKey(p.fbs[fb])
       IN [p EXCEPT !.inUse = @ \ {fb},
                    !.pool = PoolSet(@, key, Append(Available(p, key), fb))]

RECURSIVE ReleaseFrom(_, _)
\* the forEach of releaseAll() from framebuffer id on: a Set is visited in
\* insertion order, which is the order of the ids, a framebuffer being added
\* to inUse by the acquire() that allocates it
ReleaseFrom(p, id) ==
  IF id > Len(p.fbs) THEN p
  ELSE ReleaseFrom(IF id \in p.inUse THEN release(p, id) ELSE p, id + 1)

\* releaseAll()
releaseAll(p) == ReleaseFrom(p, 1)

\* the framebuffers waiting in the pool
Pooled(p) == UNION {Range(p.pool[k]) : k \in DOMAIN p.pool}

\* dispose(): every framebuffer in use or pooled is disposed, both emptied
PoolDispose(p) ==
  [p EXCEPT !.fbs = [id \in DOMAIN p.fbs |->
                       IF id \in p.inUse \cup Pooled(p)
                       THEN [p.fbs[id] EXCEPT !.disposed = @ + 1] ELSE p.fbs[id]],
            !.pool = [k \in {} |-> <<>>],
            !.inUse = {}]

\* -------------------------------------------------------------- rasterizer
\* Textures are n x n grids of texels [x, y, z, w]; a texel's index <<i, j>>
\* counts columns and rows of the framebuffer from 0. Positions are in whole
\* pixels (the half-pixel offset of the centres is common to all of them) and
\* every distance is kept as its square.

\* the distance an invalid texel starts a JFA pass with
Far == 999999

Pixels(n) == (0..(n - 1)) \X (0..(n - 1))

\* gl.clearColor(0, 0, 0, 0); gl.clear()
Cleared == [x |-> 0, y |-> 0, z |-> 0, w |-> 0]

\* the seed output of the line pass for the fragment drawn at texel px: the
\* vertex shader puts canvas position pos at clip position (x, -y), so the
\* fragment of framebuffer row j carries v_position.y = n - 1 - j; z is
\* v_data.x, the distance from the start of the segment
LineFragment(n, px, z) == [x |-> px[1], y |-> n - 1 - px[2], z |-> z, w |-> 1]

\* renderLines(): clear, then draw; covered maps the covered texels to
\* their v_data.x
renderLines(n, covered) ==
  [px \in Pixels(n) |->
     IF px \in DOMAIN covered THEN LineFragment(n, px, covered[px]) ELSE Cleared]

\* distance(pixelPos, texel.xy), squared
TexelDistance(px, texel) ==
  (px[1] - texel.x) * (px[1] - texel.x) + (px[2] - texel.y) * (px[2] - texel.y)

\* the offsets of the two for loops of the JFA shader, in their order
Offsets ==
  << <<0 - 1, 0 - 1>>, <<0, 0 - 1>>, <<1, 0 - 1>>,
     <<0 - 1, 0>>, <<0, 0>>, <<1, 0>>,
     <<0 - 1, 1>>, <<0, 1>>, <<1, 1>> >>

RECURSIVE SampleFrom(_, _, _, _, _, _)
\* the loops of the JFA shader from offset k on; best is currentPos and
\* currentDist
SampleFrom(input, n, stepSize, px, k, best) ==
  IF k > Len(Offsets) THEN best
  ELSE LET at == <<px[1] + Offsets[k][1] * stepSize, px[2] + Offsets[k][2] * stepSize>>
           inside == at \in Pixels(n)
           sample == input[at]
           dist == TexelDistance(px, sample)
       IN IF inside /\ sample.w > 0 /\ dist < best.dist
          THEN SampleFrom(input, n, stepSize, px, k + 1,
                          [x |-> sample.x, y |-> sample.y, dist |-> dist])
          ELSE SampleFrom(input, n, stepSize, px, k + 1, best)

\* main() of JFA_SHADER for the fragment at texel px
JfaFragment(input, n, stepSize, px) ==
  LET current == input[px]
      start == [x |-> current.x, y |-> current.y,
                dist |-> IF current.w = 0 THEN Far ELSE current.z]
      best == SampleFrom(input, n, stepSize, px, 1, start)
  IN [x |-> best.x, y |-> best.y, z |-> best.dist,
      w |-> IF current.w > 0 \/ best.dist < Far THEN 1 ELSE 0]

\* one fullscreen draw with JFA_SHADER
JfaDraw(input, n, stepSize) ==
  [px \in Pixels(n) |-> JfaFragment(input, n, stepSize, px)]

\* main() of DISTANCE_FIELD_SHADER with u_maxDistance = 0.2 * n: the value
\* clamp(dist / maxDistance, 0, 1) is kept as min(25 * dist^2, n^2), which
\* orders the texels as the normalized value does
DistanceFragment(jfa, n, px) ==
  LET d == IF jfa[px].w > 0 THEN 25 * TexelDistance(px, jfa[px]) ELSE n * n
  IN IF d > n * n THEN n * n ELSE d

\* the state of one rasterize() call: pc is the statement it is at, fbs the
\* framebuffers created so far in creation order (a framebuffer's id is its
\* index), each with the number of dispose() calls and the texture contents
NewRasterizer(resolution, maps, covered) ==
  [pc |-> "seedFB", resolution |-> resolution, maps |-> maps, covered |-> covered,
   fbs |-> <<>>, seedFB |-> Null, thicknessFB |-> Null, idFB |-> Null, depthFB |-> Null,
   currentFB |-> Null, nextFB |-> Null, copied |-> Null, jfaResult |-> Null,
   outputFB |-> Null, stepSize |-> 0, passes |-> <<>>, output |-> {},
   distance |-> <<>>]

\* renderer.createFramebuffer(): new Framebuffer(gl, options); the texture of
\* a new framebuffer is zero-filled
createFramebuffer(r, role) ==
  [r EXCEPT !.fbs = Append(@, [role |-> role, disposed |-> 0,
                               texture |-> [px \in Pixels(r.resolution) |-> Cleared]])]

\* Framebuffer.dispose()
dispose(r, id) == [r EXCEPT !.fbs[id].disposed = @ + 1]

\* an exception leaves rasterize() at once: no handler, no finally
Throw(r) == [r EXCEPT !.pc = "thrown"]

\* the statement after the one at pc, in rasterize() with runJFA() and the
\* map generators inlined
After(pc) ==
  CASE pc = "seedFB" -> "thicknessFB"
    [] pc = "thicknessFB" -> "idFB"
    [] pc = "idFB" -> "depthFB"
    [] pc = "depthFB" -> "renderLines"
    [] pc = "renderLines" -> "currentFB"
    [] pc = "currentFB" -> "nextFB"
    [] pc = "nextFB" -> "copy"
    [] pc = "copy" -> "pass"
    [] pc = "pass" -> "distance"
    [] pc = "distance" -> "direction"
    [] pc = "direction" -> "thickness"
    [] pc = "thickness" -> "id"
    [] pc = "id" -> "depth"
    [] pc = "depth" -> "cleanup"
    [] pc = "cleanup" -> "done"
    [] OTHER -> pc

\* const seedFB = ..., thicknessFB = ..., idFB = ..., depthFB = ...
CreateTarget(r) ==
  LET made == createFramebuffer(r, r.pc)
      id == Len(made.fbs)
  IN [made EXCEPT !.pc = After(r.pc),
                  !.seedFB = IF r.pc = "seedFB" THEN id ELSE @,
                  !.thicknessFB = IF r.pc = "thicknessFB" THEN id ELSE @,
                  !.idFB = IF r.pc = "idFB" THEN id ELSE @,
                  !.depthFB = IF r.pc = "depthFB" THEN id ELSE @]

\* this.renderLines(...): the seed attachment receives the line fragments
RenderLines(r) ==
  [r EXCEPT !.pc = After(r.pc),
            !.fbs[r.seedFB].texture = renderLines(r.resolution, r.covered)]

\* runJFA: let currentFB = ..., let nextFB = ...
CreatePingPong(r) ==
  LET made == createFramebuffer(r, r.pc)
      id == Len(made.fbs)
  IN [made EXCEPT !.pc = After(r.pc),
                  !.currentFB = IF r.pc = "currentFB" THEN id ELSE @,
                  !.nextFB = IF r.pc = "nextFB" THEN id ELSE @]

\* let stepSize = Math.floor(resolution / 2)
firstStep(resolution) == resolution \div 2

\* runJFA: the passthrough draw of the seed texture into currentFB, then the
\* initial step size
CopySeed(r) ==
  [r EXCEPT !.pc = After(r.pc),
            !.fbs[r.currentFB].texture = r.fbs[r.seedFB].texture,
            !.copied = r.currentFB,
            !.stepSize = firstStep(r.resolution)]

\* while (stepSize >= 1)
jfaConditionStrict(stepSize) == stepSize > 1
jfaCondition(stepSize) == stepSize >= 1

\* stepSize = Math.floor(stepSize / 2)
halve(stepSize) == stepSize \div 2

\* the buffers after "temp = currentFB; currentFB = nextFB; nextFB = temp"
swapSkipped(r) == [currentFB |-> r.currentFB, nextFB |-> r.nextFB]
swap(r) == [currentFB |-> r.nextFB, nextFB |-> r.currentFB]

\* one turn of the while loop of runJFA: draw into nextFB reading currentFB,
\* swap, halve
JfaPass(r) ==
  [r EXCEPT !.fbs[r.nextFB].texture =
                JfaDraw(r.fbs[r.currentFB].texture, r.resolution, r.stepSize),
            !.passes = Append(@, [stepSize |-> r.stepSize, read |-> r.currentFB,
                                  write |-> r.nextFB]),
            !.currentFB = swap(r).currentFB,
            !.nextFB = swap(r).nextFB,
            !.stepSize = halve(r.stepSize)]

\* runJFA after the loop: nextFB.dispose(); return currentFB
JfaReturn(r) ==
  [dispose(r, r.nextFB) EXCEPT !.pc = After(r.pc), !.jfaResult = r.currentFB]

\* generateDistanceMap / generateDirectionMap up to framebufferToCanvas:
\* outputFB is created and drawn into
DrawMap(r) ==
  LET made == createFramebuffer(r, "outputFB")
      id == Len(made.fbs)
      jfa == r.fbs[r.jfaResult].texture
  IN [made EXCEPT !.pc = IF r.pc = "distance" THEN "distanceCanvas" ELSE "directionCanvas",
                  !.outputFB = id,
                  !.distance = IF r.pc = "distance"
                               THEN [px \in Pixels(r.resolution) |->
                                       DistanceFragment(jfa, r.resolution, px)]
                               ELSE @]

\* generateDistanceMap / generateDirectionMap from framebufferToCanvas on:
\* the canvas is returned after outputFB.dispose()
MapToCanvas(r) ==
  LET map == IF r.pc = "distanceCanvas" THEN "distance" ELSE "direction"
  IN [dispose(r, r.outputFB) EXCEPT !.pc = After(map), !.output = @ \cup {map}]

\* output.thickness / id / depth = this.framebufferToCanvas(...)
TargetToCanvas(r) == [r EXCEPT !.pc = After(r.pc), !.output = @ \cup {r.pc}]

\* if (maps.includes(...)) is false
SkipMap(r) == [r EXCEPT !.pc = After(r.pc)]

\* the five dispose() calls at the end of rasterize()
Cleanup(r) ==
  [dispose(dispose(dispose(dispose(dispose(r, r.seedFB), r.thicknessFB), r.idFB),
                   r.depthFB), r.jfaResult)
     EXCEPT !.pc = After(r.pc)]

\* the statements that can throw: new Framebuffer ("Framebuffer incomplete"),
\* createShader (compile or link error), framebufferToCanvas (no 2d context)
CanThrow(r) ==
  \/ r.pc \in {"seedFB", "thicknessFB", "idFB", "depthFB", "currentFB", "nextFB", "copy",
               "distanceCanvas", "directionCanvas"}
  \/ r.pc \in {"distance", "direction", "thickness", "id", "depth"} /\ r.pc \in r.maps

\* ------------------------------------------------------------ graph engine
\* The nodes Map is the sequence of its entries [id, type] in insertion order,
\* connections the array of [id, from |-> [node, output], to |-> [node, input]].

\* the registered node definitions: the data types of their inputs and outputs
NodeDefinitions ==
  [type \in {"generator", "filter", "blend"} |->
     CASE type = "generator" ->
            [inputs |-> [p \in {} |-> ""], outputs |-> [p \in {"out"} |-> "grayscale"]]
       [] type = "filter" ->
            [inputs |-> [p \in {"a"} |-> "rgba"], outputs |-> [p \in {"out"} |-> "rgba"]]
       [] type = "blend" ->
            [inputs |-> [p \in {"a", "b"} |-> IF p = "a" THEN "grayscale" ELSE "rgba"],
             outputs |-> [p \in {"out"} |-> "rgba"]]]

Connection(id, fromNode, output, toNode, input) ==
  [id |-> id, from |-> [node |-> fromNode, output |-> output],
   to |-> [node |-> toNode, input |-> input]]

\* the argument on record when the last call was no addConnection
NoConnection == Connection(<<>>, "", "", "", "")

\* a new GraphEngine; op is the kind of the last method called (compile,
\* addConnection, or another edit), argument and returned the argument and
\* the value of the last addConnection; compile returns compiledGraph as it
\* is after the call
NewEngine ==
  [pc |-> "on", nodes |-> <<>>, connections |-> <<>>,
   compiledGraph |-> [present |-> FALSE, executionOrder |-> <<>>],
   dirtyNodes |-> {}, op |-> "edit", argument |-> NoConnection, returned |-> FALSE]

\* this.nodes.keys() as a set, this.nodes.get(id)
NodeKeys(e) == {e.nodes[k].id : k \in DOMAIN e.nodes}
NodeGet(e, id) == e.nodes[CHOOSE k \in DOMAIN e.nodes : e.nodes[k].id = id]

\* this.nodes.set(id, node): a present key keeps its place
NodeSet(nodes, node) ==
  IF \E k \in DOMAIN nodes : nodes[k].id = node.id
  THEN [k \in DOMAIN nodes |-> IF nodes[k].id = node.id THEN node ELSE nodes[k]]
  ELSE Append(nodes, node)

RECURSIVE Downstream(_, _, _)
\* the loop of markDirty: the nodes visited from the stack
Downstream(connections, stack, visited) ==
  IF stack \subseteq visited THEN visited
  ELSE LET current == CHOOSE n \in stack \ visited : TRUE
           pushed == {connections[k].to.node :
                        k \in {j \in DOMAIN connections : connections[j].from.node = current}}
       IN Downstream(connections, (stack \ {current}) \cup pushed, visited \cup {current})

markDirty(e, nodeId) ==
  [e EXCEPT !.dirtyNodes = @ \cup {nodeId} \cup Downstream(e.connections, {nodeId}, {})]

invalidateCompilationSkipped(e) == e
invalidateCompilation(e) == [e EXCEPT !.compiledGraph = [present |-> FALSE, executionOrder |-> <<>>]]

addNode(e, node) ==
  [markDirty(invalidateCompilation([e EXCEPT !.nodes = NodeSet(@, node)]), node.id)
     EXCEPT !.op = "edit", !.argument = NoConnection, !.returned = FALSE]

removeNode(e, nodeId) ==
  [invalidateCompilation(
     [e EXCEPT !.nodes = SelectSeq(@, LAMBDA n : n.id # nodeId),
               !.connections = SelectSeq(@, LAMBDA c : c.from.node # nodeId
                                                        /\ c.to.node # nodeId)])
     EXCEPT !.op = "edit", !.argument = NoConnection, !.returned = FALSE]

updateNodeParameter(e, nodeId) ==
  [(IF nodeId \in NodeKeys(e) THEN markDirty(e, nodeId) ELSE e)
     EXCEPT !.op = "edit", !.argument = NoConnection, !.returned = FALSE]

areTypesCompatible(from, to) ==
  \/ from = to
  \/ from = "grayscale" /\ to \in {"color", "rgba"}
  \/ from = "color" /\ to = "rgba"
  \/ from = "scalar" /\ to \in {"grayscale", "color", "rgba"}

RECURSIVE Upstream(_, _, _)
\* the loop of wouldCreateCycle short of its early return: the nodes visited
\* from the stack along connections taken backwards
Upstream(connections, stack, visited) ==
  IF stack \subseteq visited THEN visited
  ELSE LET nodeId == CHOOSE n \in stack \ visited : TRUE
           pushed == {connections[k].from.node :
                        k \in {j \in DOMAIN connections : connections[j].to.node = nodeId}}
       IN Upstream(connections, (stack \ {nodeId}) \cup pushed, visited \cup {nodeId})

\* a cycle check that misses the connection of a node to itself
wouldCreateCycleStrict(e, newConnection) ==
  /\ newConnection.from.node # newConnection.to.node
  /\ newConnection.to.node \in Upstream(e.connections, {newConnection.from.node}, {})

wouldCreateCycle(e, newConnection) ==
  newConnection.to.node \in Upstream(e.connections, {newConnection.from.node}, {})

validateConnection(e, connection) ==
  /\ connection.from.node \in NodeKeys(e)
  /\ connection.to.node \in NodeKeys(e)
  /\ NodeGet(e, connection.from.node).type \in DOMAIN NodeDefinitions
  /\ NodeGet(e, connection.to.node).type \in DOMAIN NodeDefinitions
  /\ LET fromDef == NodeDefinitions[NodeGet(e, connection.from.node).type]
         toDef == NodeDefinitions[NodeGet(e, connection.to.node).type]
     IN /\ connection.from.output \in DOMAIN fromDef.outputs
        /\ connection.to.input \in DOMAIN toDef.inputs
        /\ areTypesCompatible(fromDef.outputs[connection.from.output],
                              toDef.inputs[connection.to.input])
  /\ ~wouldCreateCycle(e, connection)

addConnection(e, connection) ==
  IF ~validateConnection(e, connection)
  THEN [e EXCEPT !.op = "addConnection", !.argument = connection, !.returned = FALSE]
  ELSE LET kept == SelectSeq(e.connections,
                             LAMBDA c : ~(c.to.node = connection.to.node
                                          /\ c.to.input = connection.to.input))
       IN [markDirty(invalidateCompilation([e EXCEPT !.connections = Append(kept, connection)]),
                     connection.to.node)
             EXCEPT !.op = "addConnection", !.argument = connection, !.returned = TRUE]

removeConnection(e, connectionId) ==
  LET found == SelectSeq(e.connections, LAMBDA c : c.id = connectionId)
  IN IF found = <<>>
     THEN [e EXCEPT !.op = "edit", !.argument = NoConnection, !.returned = FALSE]
     ELSE [markDirty(invalidateCompilation(
                       [e EXCEPT !.connections = SelectSeq(@, LAMBDA c : c.id # connectionId)]),
                     found[1].to.node)
             EXCEPT !.op = "edit", !.argument = NoConnection, !.returned = FALSE]

\* inDegree after "Build graph"
InDegree(e) ==
  [id \in NodeKeys(e) |->
     Cardinality({k \in DOMAIN e.connections : e.connections[k].to.node = id})]

\* adjacency.get(nodeId): the targets of the node's connections, in order
Adjacency(e, nodeId) ==
  LET out == SelectSeq(e.connections, LAMBDA c : c.from.node = nodeId)
  IN [k \in DOMAIN out |-> out[k].to.node]

RECURSIVE Relax(_, _, _)
\* the for loop over the neighbours of a dequeued node: [inDegree, queue]
Relax(neighbours, inDegree, queue) ==
  IF neighbours = <<>> THEN [inDegree |-> inDegree, queue |-> queue]
  ELSE LET neighbor == Head(neighbours)
           newDegree == inDegree[neighbor] - 1
       IN Relax(Tail(neighbours), [inDegree EXCEPT ![neighbor] = newDegree],
                IF newDegree = 0 THEN Append(queue, neighbor) ELSE queue)

RECURSIVE Kahn(_, _, _, _)
\* the while loop of Kahn's algorithm
Kahn(e, inDegree, queue, result) ==
  IF queue = <<>> THEN result
  ELSE LET nodeId == Head(queue)
           relaxed == Relax(Adjacency(e, nodeId), inDegree, Tail(queue))
       IN Kahn(e, relaxed.inDegree, relaxed.queue, Append(result, nodeId))

topologicalSort(e) ==
  LET inDegree == InDegree(e)
      keys == [k \in DOMAIN e.nodes |-> e.nodes[k].id]
  IN Kahn(e, inDegree, SelectSeq(keys, LAMBDA id : inDegree[id] = 0), <<>>)

compile(e) ==
  IF e.compiledGraph.present
  THEN [e EXCEPT !.op = "compile", !.argument = NoConnection, !.returned = FALSE]
  ELSE [e EXCEPT !.compiledGraph = [present |-> TRUE, executionOrder |-> topologicalSort(e)],
                 !.op = "compile", !.argument = NoConnection, !.returned = FALSE]

clearDirty(e) == [e EXCEPT !.dirtyNodes = {}, !.op = "edit", !.argument = NoConnection, !.returned = FALSE]

\* --------------------------------------------------- reference definitions
\* What the properties below compare the engines with.

\* the text of a symbol as written in a generation
SymbolText(symbol) ==
  IF symbol.hasParams
  THEN <<symbol.symbol, "(">> \o join(symbol.params) \o <<")">>
  ELSE <<symbol.symbol>>

\* rule k of rules is a candidate for position n of the generation symbols:
\* predecessor, contexts taken from that generation, and guard
Candidate(rules, k, symbols, n) ==
  LET rule == rules[k]
  IN /\ Len(rule.predecessor) > 0 /\ rule.predecessor[1] = symbols[n].symbol
     /\ rule.leftContext # "" => (n > 1 /\ symbols[n - 1].symbol = rule.leftContext)
     /\ rule.rightContext # "" => (n < Len(symbols) /\ symbols[n + 1].symbol = rule.rightContext)
     /\ (rule.condition # "" /\ symbols[n].hasParams)
          => evaluateCondition(rule.condition, symbols[n].params)

Candidates(rules, symbols, n) == {k \in 1..Len(rules) : Candidate(rules, k, symbols, n)}

RECURSIVE Flatten(_)
Flatten(pieces) == IF Len(pieces) = 0 THEN <<>> ELSE pieces[1] \o Flatten(Tail(pieces))

\* one parallel rewriting pass with rules that carry no probability: every
\* symbol of the generation is replaced at once
ParallelPass(rules, generation) ==
  LET symbols == tokenize(generation)
      replaced(n) ==
        LET cands == Candidates(rules, symbols, n)
        IN IF cands = {} THEN SymbolText(symbols[n])
           ELSE rules[CHOOSE k \in cands : \A j \in cands : k <= j].successor
  IN Flatten([n \in 1..Len(symbols) |-> replaced(n)])

RECURSIVE Rewrite(_, _, _)
\* n parallel passes over the axiom
Rewrite(axiom, rules, n) ==
  IF n = 0 THEN axiom ELSE ParallelPass(rules, Rewrite(axiom, rules, n - 1))

RECURSIVE Commands(_, _)
\* the command characters interpret() executes from index i (counted from 0)
\* on: a command's parenthesised argument is not a command
Commands(str, i) ==
  IF i >= Len(str) THEN <<>>
  ELSE LET paren == i + 1 < Len(str) /\ str[i + 2] = "("
           closers == {k \in (i + 1)..Len(str) : str[k] = ")"}
           first == CHOOSE k \in closers : \A j \in closers : k <= j
           next == IF paren /\ closers # {} /\ first > i + 1 THEN first ELSE i + 1
       IN <<str[i + 1]>> \o Commands(str, next)

Draws(str) == Cardinality({k \in 1..Len(Commands(str, 0)) : Commands(str, 0)[k] \in {"F", "G"}})
HasMove(str) == \E k \in 1..Len(Commands(str, 0)) : Commands(str, 0)[k] \in {"f", "g"}

\* ------------------------------------------------------------------ inputs
\* the rule lists the parsers are built with
Fibonacci == <<Rule(<<"A">>, <<"A", "B">>), Rule(<<"B">>, <<"A">>)>>
BinaryTree == <<Rule(<<"F">>, <<"F", "[", "+", "F", "]", "[", "-", "F", "]">>)>>
Erasing == <<Rule(<<"B">>, <<>>), Rule(<<"A">>, <<"B", "A">>)>>
LeftContext ==
  <<[Rule(<<"A">>, <<"X">>) EXCEPT !.leftContext = "B"], Rule(<<"A">>, <<"Y">>),
    Rule(<<"B">>, <<"A", "B">>)>>
RightContext ==
  <<[Rule(<<"A">>, <<"X">>) EXCEPT !.rightContext = "B"], Rule(<<"A">>, <<"Y">>),
    Rule(<<"B">>, <<"B", "A">>)>>
BothContexts ==
  <<[Rule(<<"A">>, <<"Z">>) EXCEPT !.leftContext = "B", !.rightContext = "A"],
    [Rule(<<"A">>, <<"A", "A">>) EXCEPT !.rightContext = "F"],
    Rule(<<"A">>, <<"B">>), Rule(<<"F">>, <<"A">>)>>
Stochastic ==
  <<[Rule(<<"F">>, <<"A">>) EXCEPT !.probability = 1],
    [Rule(<<"F">>, <<"B", "F">>) EXCEPT !.probability = 1]>>
Weighted ==
  <<Rule(<<"F">>, <<"A">>),
    [Rule(<<"F">>, <<"F", "B">>) EXCEPT !.probability = 3],
    [Rule(<<"F">>, <<"B">>) EXCEPT !.probability = 0]>>
Guarded ==
  <<[Rule(<<"A">>, <<"B">>) EXCEPT !.condition = "s>1"],
    [Rule(<<"B">>, <<"F">>) EXCEPT !.condition = "s>"],
    Rule(<<"A">>, <<"F", "A">>)>>

RuleSets == {Fibonacci, Erasing, LeftContext, RightContext, BothContexts,
             Stochastic, Weighted, Guarded}

IsStochastic(rules) == \E k \in 1..Len(rules) : rules[k].probability # NoProb

\* the characters of the enumerated strings
Alphabet == {"F", "G", "f", "g", "+", "-", "[", "]", "!", "|", "@", "#", "X", "(", ")", "0", "2"}

\* longer strings: the rewritten presets and the strings of the test suite
Examples ==
  { Rewrite(<<"F">>, BinaryTree, 1),
    <<"]", "F", "[", "F", "]", "F">>,
    <<"F", "[", "+", "F", "[", "-", "F", "]", "]", "[", "-", "F", "[", "+", "F", "]", "]">>,
    <<"F", "+", "F", "-", "F">>,
    <<"F", "(", "2", ")", "@", "(", "0", ")", "F">>,
    <<"[", "[", "F", "]", "F", "]", "F">>,
    <<"F", "f", "F", "[", "F", "]", "F">> }

TurtleInputs == SeqsUpTo(Alphabet, MaxLen) \cup Examples

ParserAlphabet == {"A", "B", "F"}
\* longer axioms: neighbours for the context rules, and parametric symbols
ExampleAxioms ==
  { <<"B", "A">>, <<"A", "B">>, <<"A", "F">>, <<"F", "F">>, <<"B", "A", "A">>,
    <<"A", "(", "2", ")">>, <<"A", "(", "0", ")", "B">>, <<"B", "(", ")", "A">>,
    <<"A", "(", "2", ",", "0", "2", ")", "A">> }

\* longest enumerated axiom
MaxAxiom == 1
\* largest iteration count handed to parse()
MaxIterations == 3
\* calls of parse() on one parser
MaxCalls == 1

Axioms == SeqsUpTo(ParserAlphabet, MaxAxiom) \cup ExampleAxioms
Seeds == {NoSeed} \cup 0..MaxSeed

\* colonization layouts: seeds and attractors on one line
SeedPositions == {Vec(0, 0), Vec(3, 0)}
AttractorPositions == {Vec(x, 0) : x \in (0 - 1)..3}
\* most seeds of a configuration
MaxSeeds == 2
\* most attractors of a solver
MaxAttractors == 2
\* largest maxIterations of a configuration
MaxRunIterations == 2

ColonizationParameters ==
  [attractionDistance : {3}, killDistance : {1, 2}, stepSize : {1, 2},
   maxIterations : 0..MaxRunIterations, growthBias : {NoBias, Bias(Vec(1, 0))}]
ColonizationConfigs == [seeds : SeqsUpTo(SeedPositions, MaxSeeds), parameters : ColonizationParameters]

\* ------------------------------------------------------------------- state
\* turtle, parser, solver: one instance of each engine; turtle2 and parser2:
\* a second instance built with the same arguments
VARIABLES turtle, turtle2, parser, parser2, solver, raster, pool, engine

vars == <<turtle, turtle2, parser, parser2, solver, raster, pool, engine>>

\* an engine that is not part of the specification at hand
TurtleOff == [NewTurtle(TurtleParams(1, 0), NoSeed) EXCEPT !.pc = "off"]
ParserOff == [NewParser(<<>>, <<>>, NoSeed) EXCEPT !.pc = "off"]
SolverOff ==
  [NewSolver([seeds |-> <<>>,
              parameters |-> [attractionDistance |-> 0, killDistance |-> 0, stepSize |-> 0,
                              maxIterations |-> 0, growthBias |-> NoBias]], FALSE)
   EXCEPT !.pc = "off"]
PoolOff == [NewPool EXCEPT !.pc = "off"]
RasterOff == [NewRasterizer(1, {}, <<>>) EXCEPT !.pc = "off"]
EngineOff == [NewEngine EXCEPT !.pc = "off"]

\* ---------------------------------------------------------- turtle actions
\* The steps of one interpreter, t its state before and tNext after.

\* interpret(lSystemString, startPos) is called
InterpretCalled(t, tNext) ==
  /\ t.pc = "idle"
  /\ \E str \in TurtleInputs : tNext = InterpretBegin(t, str, Vec(0, 0))

\* one pass of the while loop
InterpretLoop(t, tNext) ==
  /\ t.pc = "loop"
  /\ t.i < Len(t.str)
  /\ \E any \in 0..(RandDen - 1) : tNext = InterpretStep(t, any)

\* the loop is left and interpret() returns the graph
InterpretReturns(t, tNext) ==
  /\ t.pc = "loop"
  /\ t.i >= Len(t.str)
  /\ tNext = InterpretReturn(t)

TurtleInterpret ==
  InterpretCalled(turtle, turtle') /\ UNCHANGED <<turtle2, parser, parser2, solver, raster, pool, engine>>
TurtleStep ==
  InterpretLoop(turtle, turtle') /\ UNCHANGED <<turtle2, parser, parser2, solver, raster, pool, engine>>
TurtleReturn ==
  InterpretReturns(turtle, turtle') /\ UNCHANGED <<turtle2, parser, parser2, solver, raster, pool, engine>>

TurtleInit ==
  /\ turtle = NewTurtle(TurtleParams(1, 0), NoSeed)
  /\ turtle2 = TurtleOff /\ parser = ParserOff /\ parser2 = ParserOff /\ solver = SolverOff
  /\ raster = RasterOff /\ pool = PoolOff /\ engine = EngineOff

TurtleNext == TurtleInterpret \/ TurtleStep \/ TurtleReturn

SpecTurtle == TurtleInit /\ [][TurtleNext]_vars

\* ---------------------------------------------------------- parser actions
\* The steps of one parser, p its state before and pNext after.

\* parse(iterations) is called
ParseCalled(p, pNext) ==
  /\ p.pc = "idle"
  /\ Len(p.returned) < MaxCalls
  /\ \E n \in 0..MaxIterations : pNext = ParseBegin(p, n)

\* the for loop of parse calls applyRules
ApplyRulesCalled(p, pNext) ==
  /\ p.pc = "for"
  /\ p.i < p.iterations
  /\ pNext = ApplyRulesBegin(p)

\* applyRules replaces one symbol
SymbolReplaced(p, pNext) ==
  /\ p.pc = "symbols"
  /\ p.k < Len(p.symbols)
  /\ \E any \in 0..(RandDen - 1) : pNext = ApplyRulesStep(p, any)

\* applyRules returns the new generation
ApplyRulesReturns(p, pNext) ==
  /\ p.pc = "symbols"
  /\ p.k >= Len(p.symbols)
  /\ pNext = ApplyRulesEnd(p)

\* parse returns
ParseReturns(p, pNext) ==
  /\ p.pc = "for"
  /\ p.i >= p.iterations
  /\ pNext = ParseReturn(p)

ParserParse ==
  ParseCalled(parser, parser') /\ UNCHANGED <<turtle, turtle2, parser2, solver, raster, pool, engine>>
ParserApplyRules ==
  ApplyRulesCalled(parser, parser') /\ UNCHANGED <<turtle, turtle2, parser2, solver, raster, pool, engine>>
ParserSymbol ==
  SymbolReplaced(parser, parser') /\ UNCHANGED <<turtle, turtle2, parser2, solver, raster, pool, engine>>
ParserApplyRulesEnd ==
  ApplyRulesReturns(parser, parser') /\ UNCHANGED <<turtle, turtle2, parser2, solver, raster, pool, engine>>
ParserReturn ==
  ParseReturns(parser, parser') /\ UNCHANGED <<turtle, turtle2, parser2, solver, raster, pool, engine>>

ParserInit ==
  /\ \E axiom \in Axioms, rules \in RuleSets, seed \in Seeds :
       /\ IsStochastic(rules) \/ seed = NoSeed
       /\ parser = NewParser(axiom, rules, seed)
  /\ turtle = TurtleOff /\ turtle2 = TurtleOff /\ parser2 = ParserOff /\ solver = SolverOff
  /\ raster = RasterOff /\ pool = PoolOff /\ engine = EngineOff

ParserNext ==
  ParserParse \/ ParserApplyRules \/ ParserSymbol \/ ParserApplyRulesEnd \/ ParserReturn

SpecParser == ParserInit /\ [][ParserNext]_vars

\* ------------------------------------------------ parse() called repeatedly
\* calls of parse() on the one parser
MaxRepeats == 2
RepeatAxioms == {<<"F">>, <<"A">>, <<"F", "F">>}
\* two alternatives for F, the second seven times as likely as the first
Skewed ==
  <<[Rule(<<"F">>, <<"A">>) EXCEPT !.probability = 1],
    [Rule(<<"F">>, <<"B", "F">>) EXCEPT !.probability = 7]>>

\* deterministic rules, or stochastic rules with a seed
RepeatInit ==
  /\ \E axiom \in RepeatAxioms, rules \in {Fibonacci, Stochastic, Skewed}, seed \in Seeds :
       /\ IsStochastic(rules) <=> seed # NoSeed
       /\ parser = NewParser(axiom, rules, seed)
  /\ turtle = TurtleOff /\ turtle2 = TurtleOff /\ parser2 = ParserOff /\ solver = SolverOff
  /\ raster = RasterOff /\ pool = PoolOff /\ engine = EngineOff

\* parse(n) is called on a parser that may have returned from earlier calls
RepeatParse ==
  /\ parser.pc = "idle"
  /\ Len(parser.returned) < MaxRepeats
  /\ \E n \in 0..MaxIterations : parser' = ParseBegin(parser, n)
  /\ UNCHANGED <<turtle, turtle2, parser2, solver, raster, pool, engine>>

RepeatNext ==
  RepeatParse \/ ParserApplyRules \/ ParserSymbol \/ ParserApplyRulesEnd \/ ParserReturn

SpecRepeat == RepeatInit /\ [][RepeatNext]_vars

\* ------------------------------------------------- two instances side by side
\* Two parsers, or two interpreters, built with the same arguments and given
\* the same call. parse() and interpret() are synchronous: the call on the
\* second instance runs once the call on the first has returned. Both are
\* built with a seed.
PairRules == {Stochastic, Weighted}
PairAxioms == SeqsUpTo({"F", "A"}, MaxAxiom) \cup {<<"F", "F">>, <<"F", "A", "F">>}
PairInputs == SeqsUpTo({"F", "+", "-"}, MaxLen) \cup {<<"F", "+", "F", "-", "F">>}

PairInit ==
  /\ solver = SolverOff
  /\ raster = RasterOff /\ pool = PoolOff /\ engine = EngineOff
  /\ \/ /\ \E axiom \in PairAxioms, rules \in PairRules, seed \in 0..MaxSeed :
             parser = NewParser(axiom, rules, seed) /\ parser2 = NewParser(axiom, rules, seed)
        /\ turtle = TurtleOff /\ turtle2 = TurtleOff
     \/ /\ \E seed \in 0..MaxSeed :
             /\ turtle = NewTurtle(TurtleParams(1, 2), seed)
             /\ turtle2 = NewTurtle(TurtleParams(1, 2), seed)
        /\ parser = ParserOff /\ parser2 = ParserOff

\* parse(n) is called on both parsers
PairParse ==
  /\ parser.pc = "idle" /\ parser2.pc = "idle"
  /\ Len(parser.returned) < MaxCalls
  /\ \E n \in 0..MaxIterations :
       parser' = ParseBegin(parser, n) /\ parser2' = ParseBegin(parser2, n)
  /\ UNCHANGED <<turtle, turtle2, solver, raster, pool, engine>>

\* interpret(str) is called on both interpreters
PairInterpret ==
  /\ turtle.pc = "idle" /\ turtle2.pc = "idle"
  /\ \E str \in PairInputs :
       /\ turtle' = InterpretBegin(turtle, str, Vec(0, 0))
       /\ turtle2' = InterpretBegin(turtle2, str, Vec(0, 0))
  /\ UNCHANGED <<parser, parser2, solver, raster, pool, engine>>

Parser2ApplyRules ==
  parser.pc = "idle" /\ ApplyRulesCalled(parser2, parser2') /\ UNCHANGED <<turtle, turtle2, parser, solver, raster, pool, engine>>
Parser2Symbol ==
  parser.pc = "idle" /\ SymbolReplaced(parser2, parser2') /\ UNCHANGED <<turtle, turtle2, parser, solver, raster, pool, engine>>
Parser2ApplyRulesEnd ==
  parser.pc = "idle" /\ ApplyRulesReturns(parser2, parser2') /\ UNCHANGED <<turtle, turtle2, parser, solver, raster, pool, engine>>
Parser2Return ==
  parser.pc = "idle" /\ ParseReturns(parser2, parser2') /\ UNCHANGED <<turtle, turtle2, parser, solver, raster, pool, engine>>
Turtle2Step ==
  turtle.pc = "done" /\ InterpretLoop(turtle2, turtle2') /\ UNCHANGED <<turtle, parser, parser2, solver, raster, pool, engine>>
Turtle2Return ==
  turtle.pc = "done" /\ InterpretReturns(turtle2, turtle2') /\ UNCHANGED <<turtle, parser, parser2, solver, raster, pool, engine>>

PairNext ==
  \/ PairParse \/ PairInterpret
  \/ ParserApplyRules \/ ParserSymbol \/ ParserApplyRulesEnd \/ ParserReturn
  \/ Parser2ApplyRules \/ Parser2Symbol \/ Parser2ApplyRulesEnd \/ Parser2Return
  \/ TurtleStep \/ TurtleReturn \/ Turtle2Step \/ Turtle2Return

SpecPair == PairInit /\ [][PairNext]_vars

\* ---------------------------------------------------------- solver actions
\* addAttractor(position), before run()
SolverAddAttractor ==
  /\ solver.pc = "idle"
  /\ Len(solver.attractors) < MaxAttractors
  /\ \E position \in AttractorPositions : solver' = addAttractor(solver, position)
  /\ UNCHANGED <<turtle, turtle2, parser, parser2, raster, pool, engine>>

\* removeAttractorsInRadius(center, radius), before run()
SolverRemoveAttractors ==
  /\ solver.pc = "idle"
  /\ \E center \in AttractorPositions, radius \in {0, 1} :
       solver' = removeAttractorsInRadius(solver, center, radius)
  /\ UNCHANGED <<turtle, turtle2, parser, parser2, raster, pool, engine>>

\* run() is called
SolverRun ==
  /\ solver.pc = "idle"
  /\ solver' = [solver EXCEPT !.pc = "run", !.iteration = 0]
  /\ UNCHANGED <<turtle, turtle2, parser, parser2, raster, pool, engine>>

\* the loop condition holds and attractors remain active: one iteration
SolverIterate ==
  /\ solver.pc = "run"
  /\ loopCondition(solver)
  /\ AnyActive(solver.attractors)
  /\ solver' = RunIteration(solver)
  /\ UNCHANGED <<turtle, turtle2, parser, parser2, raster, pool, engine>>

\* the loop ends (iteration = maxIterations, or the break) and run() returns
SolverReturn ==
  /\ solver.pc = "run"
  /\ ~loopCondition(solver) \/ ~AnyActive(solver.attractors)
  /\ solver' = RunReturn(solver)
  /\ UNCHANGED <<turtle, turtle2, parser, parser2, raster, pool, engine>>

SolverInit ==
  /\ \E config \in ColonizationConfigs, onProgress \in BOOLEAN :
       solver = NewSolver(config, onProgress)
  /\ turtle = TurtleOff /\ turtle2 = TurtleOff /\ parser = ParserOff /\ parser2 = ParserOff
  /\ raster = RasterOff /\ pool = PoolOff /\ engine = EngineOff

SolverNext ==
  SolverAddAttractor \/ SolverRemoveAttractors \/ SolverRun \/ SolverIterate \/ SolverReturn

SpecSolver == SolverInit /\ [][SolverNext]_vars

\* ------------------------------------------------- long runs of the solver

\* largest maxIterations of a long run
MaxLongRun == 6

\* one seed at the origin, attractors within reach on either side of it
LongRunConfigs ==
  [seeds : {<<Vec(0, 0)>>},
   parameters : [attractionDistance : {3}, killDistance : {1}, stepSize : {1},
                 maxIterations : 0..MaxLongRun, growthBias : {NoBias, Bias(Vec(1, 0))}]]

LongRunInit ==
  /\ \E config \in LongRunConfigs, onProgress \in BOOLEAN :
       solver = NewSolver(config, onProgress)
  /\ turtle = TurtleOff /\ turtle2 = TurtleOff /\ parser = ParserOff /\ parser2 = ParserOff
  /\ raster = RasterOff /\ pool = PoolOff /\ engine = EngineOff

LongRunNext == SolverAddAttractor \/ SolverRun \/ SolverIterate \/ SolverReturn

SpecLongRun == LongRunInit /\ [][LongRunNext]_vars

\* ------------------------------------------------------------ pool actions
\* most framebuffers one pool allocates
MaxFramebuffers == 2
PoolOptions ==
  {Options(w, 1, f, filter, wrap) :
     w \in {1, 2}, f \in {"RGBA8", "RGBA32F"}, filter \in {"", "nearest"}, wrap \in {"", "clamp"}}

\* acquireFramebuffer(options)
PoolAcquire ==
  /\ pool.pc = "on"
  /\ \E options \in PoolOptions :
       /\ Len(acquire(pool, options).fbs) <= MaxFramebuffers
       /\ pool' = acquire(pool, options)
  /\ UNCHANGED <<turtle, turtle2, parser, parser2, solver, raster, engine>>

\* releaseFramebuffer(fb), of any framebuffer the caller holds
PoolRelease ==
  /\ pool.pc = "on"
  /\ \E fb \in DOMAIN pool.fbs : pool' = release(pool, fb)
  /\ UNCHANGED <<turtle, turtle2, parser, parser2, solver, raster, engine>>

\* releaseAll()
PoolReleaseAll ==
  /\ pool.pc = "on"
  /\ pool' = releaseAll(pool)
  /\ UNCHANGED <<turtle, turtle2, parser, parser2, solver, raster, engine>>

\* the renderer's dispose()
PoolDisposed ==
  /\ pool.pc = "on"
  /\ pool' = PoolDispose(pool)
  /\ UNCHANGED <<turtle, turtle2, parser, parser2, solver, raster, engine>>

PoolInit ==
  /\ pool = NewPool
  /\ turtle = TurtleOff /\ turtle2 = TurtleOff /\ parser = ParserOff /\ parser2 = ParserOff
  /\ solver = SolverOff /\ raster = RasterOff /\ engine = EngineOff

PoolNext == PoolAcquire \/ PoolRelease \/ PoolReleaseAll \/ PoolDisposed

SpecPool == PoolInit /\ [][PoolNext]_vars

\* ------------------------------------------------------- rasterizer actions

MaxResolution == 4

\* settings.maps
MapChoices ==
  {{}, {"distance"}, {"distance", "direction", "thickness", "id", "depth"}}

\* the texels the line pass covers (none, one, or a pair), each with its
\* v_data.x (squared)
Coverings(n) ==
  {<<>>} \cup UNION {[{p, q} -> {0, 1}] : <<p, q>> \in Pixels(n) \X Pixels(n)}

\* rasterize(): one of the four createFramebuffer calls returns
RasterCreateTargets ==
  /\ raster.pc \in {"seedFB", "thicknessFB", "idFB", "depthFB"}
  /\ raster' = CreateTarget(raster)
  /\ UNCHANGED <<turtle, turtle2, parser, parser2, solver, pool, engine>>

\* rasterize(): this.renderLines(...)
RasterRenderLines ==
  /\ raster.pc = "renderLines"
  /\ raster' = RenderLines(raster)
  /\ UNCHANGED <<turtle, turtle2, parser, parser2, solver, pool, engine>>

\* runJFA(): one of the two createFramebuffer calls returns
RasterCreatePingPong ==
  /\ raster.pc \in {"currentFB", "nextFB"}
  /\ raster' = CreatePingPong(raster)
  /\ UNCHANGED <<turtle, turtle2, parser, parser2, solver, pool, engine>>

\* runJFA(): the seed is copied to currentFB
RasterCopySeed ==
  /\ raster.pc = "copy"
  /\ raster' = CopySeed(raster)
  /\ UNCHANGED <<turtle, turtle2, parser, parser2, solver, pool, engine>>

\* runJFA(): one turn of the pass loop
RasterJfaPass ==
  /\ raster.pc = "pass" /\ jfaCondition(raster.stepSize)
  /\ raster' = JfaPass(raster)
  /\ UNCHANGED <<turtle, turtle2, parser, parser2, solver, pool, engine>>

\* runJFA(): the loop ends and runJFA returns
RasterJfaReturn ==
  /\ raster.pc = "pass" /\ ~jfaCondition(raster.stepSize)
  /\ raster' = JfaReturn(raster)
  /\ UNCHANGED <<turtle, turtle2, parser, parser2, solver, pool, engine>>

\* generateDistanceMap / generateDirectionMap: the map is drawn
RasterDrawMap ==
  /\ raster.pc \in {"distance", "direction"} /\ raster.pc \in raster.maps
  /\ raster' = DrawMap(raster)
  /\ UNCHANGED <<turtle, turtle2, parser, parser2, solver, pool, engine>>

\* generateDistanceMap / generateDirectionMap: the canvas is returned
RasterMapToCanvas ==
  /\ raster.pc \in {"distanceCanvas", "directionCanvas"}
  /\ raster' = MapToCanvas(raster)
  /\ UNCHANGED <<turtle, turtle2, parser, parser2, solver, pool, engine>>

\* rasterize(): a requested thickness, id or depth map is read back
RasterTargetToCanvas ==
  /\ raster.pc \in {"thickness", "id", "depth"} /\ raster.pc \in raster.maps
  /\ raster' = TargetToCanvas(raster)
  /\ UNCHANGED <<turtle, turtle2, parser, parser2, solver, pool, engine>>

\* rasterize(): a map that was not requested is skipped
RasterSkipMap ==
  /\ raster.pc \in {"distance", "direction", "thickness", "id", "depth"} /\ raster.pc \notin raster.maps
  /\ raster' = SkipMap(raster)
  /\ UNCHANGED <<turtle, turtle2, parser, parser2, solver, pool, engine>>

\* rasterize(): cleanup and return
RasterCleanup ==
  /\ raster.pc = "cleanup"
  /\ raster' = Cleanup(raster)
  /\ UNCHANGED <<turtle, turtle2, parser, parser2, solver, pool, engine>>

\* rasterize(): the statement at pc throws
RasterThrows ==
  /\ CanThrow(raster)
  /\ raster' = Throw(raster)
  /\ UNCHANGED <<turtle, turtle2, parser, parser2, solver, pool, engine>>

RasterInit ==
  /\ \E resolution \in 1..MaxResolution, maps \in MapChoices :
       \E covered \in Coverings(resolution) :
         raster = NewRasterizer(resolution, maps, covered)
  /\ turtle = TurtleOff /\ turtle2 = TurtleOff /\ parser = ParserOff /\ parser2 = ParserOff
  /\ solver = SolverOff /\ pool = PoolOff /\ engine = EngineOff

RasterNext ==
  \/ RasterCreateTargets \/ RasterRenderLines \/ RasterCreatePingPong \/ RasterCopySeed
  \/ RasterJfaPass \/ RasterJfaReturn \/ RasterDrawMap \/ RasterMapToCanvas
  \/ RasterTargetToCanvas \/ RasterSkipMap \/ RasterCleanup \/ RasterThrows

SpecRaster == RasterInit /\ [][RasterNext]_vars

\* ---------------------------------------------------- graph engine actions

\* the node ids and the nodes the caller adds under them
NodeIds == {"n1", "n2", "n3"}
GraphNodes ==
  {[id |-> id,
    type |-> CASE id = "n1" -> "generator" [] id = "n2" -> "filter" [] id = "n3" -> "blend"] :
     id \in NodeIds}
\* the connections the caller offers, each under an id of its own
\* the inputs the caller connects to; n1, a generator, has no input a
GraphInputs == {<<"n1", "a">>, <<"n2", "a">>, <<"n3", "a">>, <<"n3", "b">>}
GraphConnections ==
  {Connection(<<fromNode, to[1], to[2]>>, fromNode, "out", to[1], to[2]) :
     <<fromNode, to>> \in NodeIds \X GraphInputs}

EngineAddNode ==
  /\ engine.pc = "on"
  /\ \E node \in GraphNodes : engine' = addNode(engine, node)
  /\ UNCHANGED <<turtle, turtle2, parser, parser2, solver, raster, pool>>

EngineRemoveNode ==
  /\ engine.pc = "on"
  /\ \E nodeId \in NodeIds : engine' = removeNode(engine, nodeId)
  /\ UNCHANGED <<turtle, turtle2, parser, parser2, solver, raster, pool>>

EngineUpdateParameter ==
  /\ engine.pc = "on"
  /\ \E nodeId \in NodeIds : engine' = updateNodeParameter(engine, nodeId)
  /\ UNCHANGED <<turtle, turtle2, parser, parser2, solver, raster, pool>>

EngineAddConnection ==
  /\ engine.pc = "on"
  /\ \E connection \in GraphConnections : engine' = addConnection(engine, connection)
  /\ UNCHANGED <<turtle, turtle2, parser, parser2, solver, raster, pool>>

EngineRemoveConnection ==
  /\ engine.pc = "on"
  /\ \E connection \in GraphConnections : engine' = removeConnection(engine, connection.id)
  /\ UNCHANGED <<turtle, turtle2, parser, parser2, solver, raster, pool>>

EngineCompile ==
  /\ engine.pc = "on"
  /\ engine' = compile(engine)
  /\ UNCHANGED <<turtle, turtle2, parser, parser2, solver, raster, pool>>

EngineClearDirty ==
  /\ engine.pc = "on"
  /\ engine' = clearDirty(engine)
  /\ UNCHANGED <<turtle, turtle2, parser, parser2, solver, raster, pool>>

EngineInit ==
  /\ engine = NewEngine
  /\ turtle = TurtleOff /\ turtle2 = TurtleOff /\ parser = ParserOff /\ parser2 = ParserOff
  /\ solver = SolverOff /\ raster = RasterOff /\ pool = PoolOff

EngineNext ==
  \/ EngineAddNode \/ EngineRemoveNode \/ EngineUpdateParameter \/ EngineAddConnection
  \/ EngineRemoveConnection \/ EngineCompile \/ EngineClearDirty

SpecEngine == EngineInit /\ [][EngineNext]_vars

\* --------------------------------------------------------------- generate()
\* generate() of the store: for an L-system a new parser's parse(iterations)
\* and then a new interpreter's interpret() of the returned string; for
\* colonization a new solver's run().
GenerateInit ==
  \/ /\ \E axiom \in Axioms, rules \in RuleSets, seed \in Seeds :
          /\ IsStochastic(rules) \/ seed = NoSeed
          /\ parser = NewParser(axiom, rules, seed)
     /\ turtle = NewTurtle(TurtleParams(1, 0), NoSeed)
     /\ turtle2 = TurtleOff /\ parser2 = ParserOff /\ solver = SolverOff
     /\ raster = RasterOff /\ pool = PoolOff /\ engine = EngineOff
  \/ SolverInit

\* parser.parse(state.lsystem.parameters.iterations)
GenerateParse ==
  /\ parser.pc = "idle" /\ parser.returned = <<>>
  /\ \E n \in 0..MaxIterations : parser' = ParseBegin(parser, n)
  /\ UNCHANGED <<turtle, turtle2, parser2, solver, raster, pool, engine>>

\* interpreter.interpret(lsystemString)
GenerateInterpret ==
  /\ parser.pc = "idle" /\ parser.returned # <<>>
  /\ turtle.pc = "idle"
  /\ turtle' = InterpretBegin(turtle, Last(parser.returned).value, Vec(0, 0))
  /\ UNCHANGED <<turtle2, parser, parser2, solver, raster, pool, engine>>

GenerateNext ==
  \/ GenerateParse \/ ParserApplyRules \/ ParserSymbol \/ ParserApplyRulesEnd \/ ParserReturn
  \/ GenerateInterpret \/ TurtleStep \/ TurtleReturn
  \/ SolverAddAttractor \/ SolverRemoveAttractors \/ SolverRun \/ SolverIterate \/ SolverReturn

SpecGenerate == GenerateInit /\ [][GenerateNext]_vars

\* ================================================================ properties
TurtleGraph ==
  [nodes |-> turtle.nodes, segments |-> turtle.segments, roots |-> turtle.roots,
   bounds |-> turtle.bounds]

\* parent links, children lists and segment ends of a Branch Graph agree
WellFormed(g) ==
  /\ \A id \in DOMAIN g.nodes :
       id \notin Range(g.roots) =>
         /\ g.nodes[id].parent \in DOMAIN g.nodes
         /\ id \in Range(g.nodes[g.nodes[id].parent].children)
  /\ \A k \in DOMAIN g.segments :
       g.segments[k].start \in DOMAIN g.nodes /\ g.segments[k].end \in DOMAIN g.nodes

\* C1: every Branch Graph returned by interpret() or by run() has, for every
\* node not listed in roots, a parent in the node table whose children list
\* holds the node, and segments whose ends are in the node table.
C1_GraphWellFormed ==
  /\ turtle.pc = "done" => WellFormed(TurtleGraph)
  /\ solver.pc = "done" => WellFormed(solver.graph)

\* the Strahler rule at one node of a graph
StrahlerAt(g, id) ==
  LET children == g.nodes[id].children
      orders == {g.nodes[children[k]].order : k \in 1..Len(children)}
      top == SetMax(orders)
      attained == Cardinality({k \in 1..Len(children) : g.nodes[children[k]].order = top})
  IN IF Len(children) = 0 THEN g.nodes[id].order = 1
     ELSE g.nodes[id].order = IF attained >= 2 THEN top + 1 ELSE top

\* C5: in every generated Branch Graph every node of the node table obeys the
\* Strahler rule: order 1 without children, else the largest child order,
\* plus one when two or more children have it.
C5_StrahlerInvariant ==
  /\ turtle.pc = "done" => \A id \in DOMAIN turtle.nodes : StrahlerAt(TurtleGraph, id)
  /\ solver.pc = "done" => \A id \in DOMAIN solver.graph.nodes : StrahlerAt(solver.graph, id)

\* the counts of a graph interpreted from a string without f/g
C6_Counts ==
  (turtle.pc = "done" /\ ~HasMove(turtle.str)) =>
     /\ Len(turtle.roots) = 1
     /\ Len(turtle.nodes) = 1 + Draws(turtle.str)
     /\ Len(turtle.segments) = Draws(turtle.str)
     /\ turtle.str = Rewrite(<<"F">>, BinaryTree, 1) =>
          Len(turtle.nodes) = 4 /\ Len(turtle.segments) = 3

\* what one executed command does to the node and segment tables
C6_Command ==
  (turtle.pc = "loop" /\ turtle'.pc = "loop" /\ ~HasMove(turtle.str)) =>
     IF turtle.str[turtle.i + 1] \in {"F", "G"}
     THEN LET new == Len(turtle.nodes) + 1
              current == turtle.state.nodeId
          IN /\ DOMAIN turtle'.nodes = 1..new
             /\ turtle'.nodes[new].parent = current
             /\ current \in DOMAIN turtle.nodes
             /\ turtle'.nodes[current].children = Append(turtle.nodes[current].children, new)
             /\ \A id \in DOMAIN turtle.nodes :
                  id # current => turtle'.nodes[id] = turtle.nodes[id]
             /\ turtle'.segments = Append(turtle.segments, [start |-> current, end |-> new])
     ELSE turtle'.nodes = turtle.nodes /\ turtle'.segments = turtle.segments

\* C6: for a string without f/g commands interpret() returns one root, 1 + k
\* nodes and k segments, k the number of F/G commands executed; each F/G adds
\* one node as a child of the current node and no other command changes the
\* node or segment table; "F" rewritten once by F -> F[+F][-F] gives 4 nodes,
\* 3 segments, 1 root.
C6_DrawOnlyGraph == [](C6_Counts) /\ [][C6_Command]_vars

\* C6 witness: the rewritten binary tree has been interpreted
C6_Witness ==
  /\ turtle.pc = "done"
  /\ turtle.str = Rewrite(<<"F">>, BinaryTree, 1)
  /\ Len(turtle.nodes) = 4

\* C9: ']' on an empty stack changes neither the turtle state, the stack nor
\* the graph; ']' on a non-empty stack restores position, heading, width,
\* depth and current node to their values at the matching '['.
C9_PopRestores ==
  [][(turtle.pc = "loop" /\ turtle'.pc = "loop" /\ turtle.str[turtle.i + 1] = "]") =>
       IF Len(turtle.stack) = 0
       THEN /\ turtle'.state = turtle.state
            /\ turtle'.stack = turtle.stack
            /\ turtle'.nodes = turtle.nodes /\ turtle'.segments = turtle.segments
            /\ turtle'.roots = turtle.roots /\ turtle'.bounds = turtle.bounds
       ELSE /\ turtle'.state = Last(turtle.marks)
            /\ turtle'.stack = Front(turtle.stack)]_vars

\* C9 witness: in "]F[F]F" the first ']' was a no-op and the second restored
\* the node drawn by the first F
C9_Witness ==
  /\ turtle.str = <<"]", "F", "[", "F", "]", "F">>
  /\ turtle.pc = "loop" /\ turtle.i = 5
  /\ turtle.state.nodeId = 2 /\ turtle.state.depth = 0
  /\ Len(turtle.nodes) = 3

\* depth is the number of parent links up to a root
DepthIsDistance(g) ==
  \A id \in DOMAIN g.nodes :
    IF id \in Range(g.roots) THEN g.nodes[id].depth = 0
    ELSE /\ g.nodes[id].parent \in DOMAIN g.nodes
         /\ g.nodes[id].depth = g.nodes[g.nodes[id].parent].depth + 1

\* C10: in every generated Branch Graph roots have depth 0 and every other
\* node has its parent's depth plus 1.
C10_DepthIsDistance ==
  /\ turtle.pc = "done" => DepthIsDistance(TurtleGraph)
  /\ solver.pc = "done" => DepthIsDistance(solver.graph)

\* C2: run() executes at most maxIterations iterations of the growth loop and
\* then returns, whatever the attractors, seeds and parameters: the count of
\* executed iterations never passes maxIterations, and every step of a run
\* either returns or executes one more iteration.
C2_RunTerminates ==
  /\ [](solver.executed <= solver.config.parameters.maxIterations)
  /\ [][solver.pc = "run" =>
          \/ solver'.pc = "done"
          \/ solver'.pc = "run" /\ solver'.executed = solver.executed + 1]_vars

\* C2 witness: run() has returned after maxIterations iterations with an
\* attractor still active
C2_Witness ==
  /\ solver.pc = "done"
  /\ solver.config.parameters.maxIterations > 0
  /\ solver.executed = solver.config.parameters.maxIterations
  /\ AnyActive(solver.attractors)

\* C3: after run() has returned every attractor within killDistance of a node
\* of the returned graph is inactive, for every configuration.
C3_NearAttractorsInactive ==
  solver.pc = "done" =>
    \A a \in DOMAIN solver.attractors : \A id \in DOMAIN solver.graph.nodes :
      CloserThan(solver.graph.nodes[id].position, solver.attractors[a].position,
                 solver.config.parameters.killDistance)
        => ~solver.attractors[a].active

\* the strings parse(0), ..., parse(3) return for axiom "A", A -> AB, B -> A
FibonacciWords ==
  << <<"A">>, <<"A", "B">>, <<"A", "B", "A">>, <<"A", "B", "A", "A", "B">> >>

\* C4: parse(n) returns the result of exactly n parallel rewriting passes over
\* the axiom (parse(0) the axiom itself), every symbol of a generation being
\* replaced at once; axiom "A" with A -> AB, B -> A gives "A", "AB", "ABA",
\* "ABAAB" for n = 0..3.
C4_ParseIsNPasses ==
  \A c \in DOMAIN parser.returned :
    LET call == parser.returned[c]
    IN /\ ~IsStochastic(parser.rules) =>
            call.value = Rewrite(parser.axiom, parser.rules, call.iterations)
       /\ call.iterations = 0 => call.value = parser.axiom
       /\ (parser.axiom = <<"A">> /\ parser.rules = Fibonacci /\ call.iterations <= 3) =>
            call.value = FibonacciWords[call.iterations + 1]

\* C4 witness: parse(3) has returned "ABAAB"
C4_Witness ==
  /\ parser.axiom = <<"A">> /\ parser.rules = Fibonacci
  /\ \E c \in DOMAIN parser.returned :
       parser.returned[c] = [iterations |-> 3, value |-> <<"A", "B", "A", "A", "B">>]

\* C7: the rule applied to a symbol is one whose predecessor is the symbol and
\* whose contexts, where given, are the symbol's neighbours in the input
\* generation; when no matching rule has a probability it is the first
\* matching rule of the list, so a context rule listed first is used exactly
\* when its context matches.
C7_RuleChoice ==
  [][(parser.pc = "symbols" /\ parser'.pc = "symbols" /\ parser'.k = parser.k + 1) =>
       LET generation == tokenize(parser.current)
           n == parser.k + 1
           appended == SubSeq(parser'.result, Len(parser.result) + 1, Len(parser'.result))
           cands == Candidates(parser.rules, generation, n)
       IN IF cands = {} THEN appended = SymbolText(generation[n])
          ELSE IF \A k \in cands : parser.rules[k].probability = NoProb
          THEN appended = parser.rules[CHOOSE k \in cands : \A j \in cands : k <= j].successor
          ELSE \E k \in cands : appended = parser.rules[k].successor]_vars

\* C7 witness: in one pass the left-context rule A -> X was used where B
\* stood to the left and the context-free A -> Y where it did not
C7_Witness ==
  /\ parser.rules = LeftContext
  /\ parser.pc = "symbols"
  /\ "X" \in Range(parser.result) /\ "Y" \in Range(parser.result)

Positions(t) == [id \in DOMAIN t.nodes |-> t.nodes[id].position]

\* C8: two parsers built with the same axiom, stochastic rules and seed return
\* the same string from parse(n); two interpreters built with the same
\* parameters (angleVariance > 0) and seed give the same node positions for
\* the same string.
C8_SeededDeterminism ==
  /\ (parser.random.seed # NoSeed /\ parser.pc = "idle" /\ parser2.pc = "idle")
       => parser.returned = parser2.returned
  /\ (turtle.random.seed # NoSeed /\ turtle.pc = "done" /\ turtle2.pc = "done")
       => Positions(turtle) = Positions(turtle2)

\* C8 witness: two seeded parsers have both returned after drawing from their
\* generators
C8_Witness ==
  /\ parser.random.seed # NoSeed
  /\ parser.pc = "idle" /\ parser2.pc = "idle"
  /\ Len(parser.returned) = 1 /\ Len(parser2.returned) = 1
  /\ parser.random.s # parser.random.seed
  /\ parser.returned[1].value # parser.axiom

\* no attractor of the solver is within attractionDistance of a seed
OutOfReach ==
  \A a \in DOMAIN solver.attractors : \A k \in DOMAIN solver.config.seeds :
    ~CloserThan(solver.config.seeds[k], solver.attractors[a].position,
                solver.config.parameters.attractionDistance)

\* C11: degenerate inputs give a minimal graph: an empty axiom rewrites to the
\* empty string for every iteration count and is interpreted to one root node
\* without segments; a solver without seeds returns a graph without nodes,
\* roots and segments; a solver without attractors, or whose attractors are all
\* out of reach of every seed, returns its seeds as roots and no segments.
C11_DegenerateInputs ==
  /\ (parser.pc # "off" /\ parser.axiom = <<>>) =>
        /\ \A c \in DOMAIN parser.returned : parser.returned[c].value = <<>>
        /\ turtle.pc = "done" =>
             /\ Len(turtle.nodes) = 1 /\ turtle.roots = <<1>> /\ turtle.segments = <<>>
             /\ turtle.nodes[1].parent = Null /\ turtle.nodes[1].children = <<>>
  /\ (solver.pc = "done" /\ solver.config.seeds = <<>>) =>
        solver.graph.nodes = <<>> /\ solver.graph.roots = <<>> /\ solver.graph.segments = <<>>
  /\ (solver.pc = "done" /\ OutOfReach) =>
        /\ Positions(solver.graph) = solver.config.seeds
        /\ solver.graph.roots = [k \in 1..Len(solver.config.seeds) |-> k]
        /\ solver.graph.segments = <<>>

\* C11 witness: run() has executed iterations with attractors that no seed
\* reaches and returned
C11_Witness ==
  /\ solver.pc = "done" /\ solver.executed >= 1
  /\ solver.config.seeds # <<>> /\ solver.attractors # <<>>
  /\ OutOfReach

\* C13: the pool is keyed by dimensions and format: an acquire() that follows
\* the release of a framebuffer of the requested width, height and format
\* returns a pooled framebuffer and allocates none.
C13_PoolReuse ==
  [][(pool.pc = "on" /\ Cardinality(pool'.inUse) > Cardinality(pool.inUse)
      /\ \E id \in Pooled(pool) :
           /\ pool.fbs[id].width = pool'.last.options.width
           /\ pool.fbs[id].height = pool'.last.options.height
           /\ pool.fbs[id].format = pool'.last.options.format)
       => (pool'.fbs = pool.fbs /\ pool'.last.fb \in Pooled(pool))]_vars

\* C12: when rasterize() has exited, by return or by exception, every
\* framebuffer it created has been disposed exactly once.
C12_ReleasedOnExit ==
  raster.pc \in {"done", "thrown"} =>
    \A id \in DOMAIN raster.fbs : raster.fbs[id].disposed = 1

\* the integer logarithms of n >= 1
FloorLog2(n) == CHOOSE k \in 0..n : 2^k <= n /\ n < 2^(k + 1)
CeilLog2(n) == CHOOSE k \in 0..n : n <= 2^k /\ (k = 0 \/ 2^(k - 1) < n)

\* runJFA has returned
JfaReturned == raster.jfaResult # Null

\* the k-th pass ran with step size floor(n / 2^k), the step sizes decrease
\* strictly and the last one is 1
StepSequence ==
  /\ \A k \in DOMAIN raster.passes :
       raster.passes[k].stepSize = raster.resolution \div (2^k)
  /\ \A k \in DOMAIN raster.passes :
       k > 1 => raster.passes[k].stepSize < raster.passes[k - 1].stepSize
  /\ raster.passes # <<>> => Last(raster.passes).stepSize = 1

\* C14 as stated: runJFA runs one pass per step size floor(n/2), floor(n/4),
\* ..., 1, in strictly decreasing order, and ceil(log2 n) passes in all.
C14_CeilLog2Passes ==
  JfaReturned => (StepSequence /\ Len(raster.passes) = CeilLog2(raster.resolution))

\* C14 amended: runJFA runs one pass per step size floor(n/2), floor(n/4),
\* ..., 1, in strictly decreasing order, and floor(log2 n) passes in all.
C14_FloorLog2Passes ==
  JfaReturned => (StepSequence /\ Len(raster.passes) = FloorLog2(raster.resolution))

\* C14 witness: runJFA has returned after two passes
C14_Witness == JfaReturned /\ Len(raster.passes) = 2

\* the two ping-pong framebuffers of runJFA
PingPong == {id \in DOMAIN raster.fbs : raster.fbs[id].role \in {"currentFB", "nextFB"}}

\* C15: the first pass reads the copy of the seed buffer, every later pass
\* reads the buffer the pass before it wrote, every pass writes the other
\* ping-pong buffer; runJFA returns the buffer written last and has disposed
\* the other ping-pong buffer exactly once.
C15_PingPong ==
  /\ \A k \in DOMAIN raster.passes :
       /\ raster.passes[k].read = IF k = 1 THEN raster.copied ELSE raster.passes[k - 1].write
       /\ raster.passes[k].write \in PingPong \ {raster.passes[k].read}
  /\ JfaReturned =>
       /\ raster.jfaResult = IF raster.passes = <<>> THEN raster.copied
                             ELSE Last(raster.passes).write
       /\ \A id \in PingPong \ {raster.jfaResult} : raster.fbs[id].disposed = 1
       /\ Cardinality(PingPong \ {raster.jfaResult}) = 1

\* C15 witness: rasterize has returned after a runJFA of two passes
C15_Witness == raster.pc = "done" /\ Len(raster.passes) = 2

\* the squared Euclidean distance between the texels p and q
PixelDistance(p, q) ==
  (p[1] - q[1]) * (p[1] - q[1]) + (p[2] - q[2]) * (p[2] - q[2])

\* C18: when the seed buffer has exactly one seed texel, the distance map is
\* non-decreasing in the distance from that texel: a texel that is no farther
\* from the seed than another has no larger a value.
C18_DistanceMonotone ==
  (raster.distance # <<>> /\ Cardinality(DOMAIN raster.covered) = 1) =>
    \A seed \in DOMAIN raster.covered :
      \A p, q \in Pixels(raster.resolution) :
        PixelDistance(p, seed) <= PixelDistance(q, seed)
          => raster.distance[p] <= raster.distance[q]

\* the candidates of texel px in a pass over input at stepSize: the stored
\* seeds of the texel itself and of its 8 neighbours at the step offset that
\* lie inside the texture and are flagged valid
JfaCandidates(input, n, stepSize, px) ==
  {input[at] : at \in {c \in Pixels(n) :
                         /\ c[1] - px[1] \in {0 - stepSize, 0, stepSize}
                         /\ c[2] - px[2] \in {0 - stepSize, 0, stepSize}
                         /\ input[c].w > 0}}

\* C19: every pass writes, for every texel, a seed that is geometrically
\* closest to the texel among its candidates, and flags the texel valid
\* exactly when it has a candidate.
C19_ClosestCandidate ==
  \A k \in DOMAIN raster.passes :
    (k = Len(raster.passes) /\ raster.pc = "pass") =>
      LET n == raster.resolution
          input == raster.fbs[raster.passes[k].read].texture
          written == raster.fbs[raster.passes[k].write].texture
      IN \A px \in Pixels(n) :
           LET candidates == JfaCandidates(input, n, raster.passes[k].stepSize, px)
           IN /\ (written[px].w > 0) <=> (candidates # {})
              /\ candidates # {} =>
                   /\ \E c \in candidates : c.x = written[px].x /\ c.y = written[px].y
                   /\ \A c \in candidates :
                        TexelDistance(px, written[px]) <= TexelDistance(px, c)

\* C16: with a progress callback, run() has called it once for each executed
\* iteration index 0, 5, 10, ..., in that order and with that index; each call
\* is made by the iteration it reports and carries the graph of all nodes that
\* exist then; without a callback nothing is reported, and nothing is
\* reported once run() has returned.
C16_ProgressEveryFive ==
  /\ [](/\ Len(solver.reports) = IF solver.onProgress THEN (solver.executed + 4) \div 5 ELSE 0
        /\ \A k \in DOMAIN solver.reports : solver.reports[k].iteration = 5 * (k - 1))
  /\ [][/\ Len(solver'.reports) # Len(solver.reports) =>
             /\ solver.pc = "run" /\ solver'.pc = "run"
             /\ Len(solver'.reports) = Len(solver.reports) + 1
             /\ Last(solver'.reports).iteration = solver.iteration
             /\ Len(Last(solver'.reports).graph.nodes) = Len(solver'.nodes)
             /\ \A id \in DOMAIN solver'.nodes :
                  /\ Last(solver'.reports).graph.nodes[id].id = solver'.nodes[id].id
                  /\ Last(solver'.reports).graph.nodes[id].position = solver'.nodes[id].position
        /\ solver.pc = "done" => solver'.reports = solver.reports]_vars

\* C16 witness: run() has returned after reporting iterations 0 and 5
C16_Witness ==
  solver.pc = "done" /\ Len(solver.reports) = 2 /\ Len(solver.nodes) > 2

\* what evaluating a guard over the parameter s against a symbol's bound
\* parameters gives: the comparison when s is bound to a number (a comparison
\* with NaN is false), a failure when the symbol binds no parameter or the
\* guard is not an expression
GuardOutcome(condition, symbol) ==
  IF condition \in {"s>1", "s<1"} /\ symbol.hasParams
  THEN IF /\ symbol.params[1] # NaN
          /\ (IF condition = "s>1" THEN symbol.params[1] > 1 ELSE symbol.params[1] < 1)
       THEN "satisfied" ELSE "unsatisfied"
  ELSE "fails"

\* the rules whose predecessor and contexts match position n of the
\* generation and whose guard, if any, is satisfied or fails to evaluate
Unblocked(rules, symbols, n) ==
  {k \in 1..Len(rules) :
     /\ Len(rules[k].predecessor) > 0 /\ rules[k].predecessor[1] = symbols[n].symbol
     /\ rules[k].leftContext # "" => (n > 1 /\ symbols[n - 1].symbol = rules[k].leftContext)
     /\ rules[k].rightContext # "" =>
          (n < Len(symbols) /\ symbols[n + 1].symbol = rules[k].rightContext)
     /\ rules[k].condition # "" =>
          GuardOutcome(rules[k].condition, symbols[n]) # "unsatisfied"}

\* C17: a guarded rule is applied to a symbol only if its guard is satisfied
\* for the symbol's parameters or cannot be evaluated; an unsatisfied guard
\* blocks the rule, a broken one does not, and every symbol of the pass is
\* rewritten (the pass is never abandoned).
C17_Guards ==
  /\ [][(parser.pc = "symbols" /\ parser'.pc = "symbols" /\ parser'.k = parser.k + 1) =>
          LET generation == tokenize(parser.current)
              n == parser.k + 1
              appended == SubSeq(parser'.result, Len(parser.result) + 1, Len(parser'.result))
              unblocked == Unblocked(parser.rules, generation, n)
          IN IF unblocked = {} THEN appended = SymbolText(generation[n])
             ELSE IF \A k \in unblocked : parser.rules[k].probability = NoProb
             THEN appended =
                    parser.rules[CHOOSE k \in unblocked : \A j \in unblocked : k <= j].successor
             ELSE \E k \in unblocked : appended = parser.rules[k].successor]_vars
  /\ [][(parser.pc = "symbols" /\ parser.k < Len(tokenize(parser.current)))
          => (parser'.pc = "symbols" /\ parser'.k = parser.k + 1)]_vars

\* C17 witness: in the generation B()A the rule B -> F, whose guard "s>" is
\* not an expression, was applied to B(), and the rule A -> B, whose guard
\* s>1 is evaluated against no parameter, was applied to A
C17_Witness ==
  /\ parser.rules = Guarded
  /\ parser.pc = "symbols"
  /\ parser.current = <<"B", "(", ")", "A">>
  /\ parser.result = <<"F", "B">>

\* the node attractor a influences: the nearest node within attractionDistance
\* (the first one among equally near nodes), none when no node is that near
Influenced(nodes, attractor, attractionDistance) ==
  LET near == {k \in DOMAIN nodes :
                 CloserThan(nodes[k].position, attractor.position, attractionDistance)}
      nearest == {k \in near :
                    \A j \in near : DistanceSq(nodes[k].position, attractor.position)
                                      <= DistanceSq(nodes[j].position, attractor.position)}
  IN IF near = {} THEN {} ELSE {CHOOSE k \in nearest : \A j \in nearest : k <= j}

RECURSIVE SumOfUnits(_, _, _)
\* the sum of the unit vectors from position toward the attractors of the set
\* at (indices into attractors)
SumOfUnits(position, attractors, at) ==
  IF at = {} THEN Vec(0, 0)
  ELSE LET a == CHOOSE a \in at : TRUE
       IN vec2Add(vec2Normalize(vec2Sub(attractors[a].position, position)),
                  SumOfUnits(position, attractors, at \ {a}))

\* C20: in one growth iteration every active attractor influences at most one
\* node, the nearest within attractionDistance; a node that attracted some
\* attractor gains exactly one child, at distance stepSize from it along the
\* normalized sum of the unit vectors toward its attractors; a node that
\* attracted none gains no child.
C20_GrowthStep ==
  [][(solver.pc = "run" /\ solver'.pc = "run" /\ solver'.executed = solver.executed + 1) =>
       LET parameters == solver.config.parameters
           active == {a \in DOMAIN solver.attractors : solver.attractors[a].active}
           attracted(k) ==
             {a \in active :
                k \in Influenced(solver.nodes, solver.attractors[a], parameters.attractionDistance)}
       IN \A k \in DOMAIN solver.nodes :
            LET before == solver.nodes[k]
                after == solver'.nodes[k]
                direction == vec2Normalize(SumOfUnits(before.position, solver.attractors,
                                                      attracted(k)))
            IN /\ after.influenceCount = Cardinality(attracted(k))
               /\ attracted(k) = {} => after.children = before.children
               /\ attracted(k) # {} =>
                    /\ Len(after.children) = Len(before.children) + 1
                    /\ Front(after.children) = before.children
                    /\ Last(after.children) \in DOMAIN solver'.nodes \ DOMAIN solver.nodes
                    /\ solver'.nodes[Last(after.children)].parent = k
                    /\ solver'.nodes[Last(after.children)].position =
                         vec2Add(before.position, vec2Scale(direction, parameters.stepSize))
                    /\ DistanceSq(before.position,
                                  solver'.nodes[Last(after.children)].position)
                         = parameters.stepSize * parameters.stepSize]_vars

\* the values the next call of random() can return
NextDraws(rng) ==
  IF rng.seed = NoSeed THEN 0..(RandDen - 1) ELSE {Fraction(Scramble(rng.s))}

\* the sum of the weights of the rules of the index set ks
RECURSIVE WeightOf(_, _)
WeightOf(rules, ks) ==
  IF ks = {} THEN 0
  ELSE LET k == CHOOSE k \in ks : TRUE
       IN Weight(rules[k]) + WeightOf(rules, ks \ {k})

\* C21: when matching rules carry weights, the rule applied is a matching
\* rule of positive weight (when there is one) whose cumulative-weight
\* interval contains the draw scaled by the total weight; a matching rule of
\* weight zero or without a weight is never applied.
C21_WeightedSampling ==
  [][(parser.pc = "symbols" /\ parser'.pc = "symbols" /\ parser'.k = parser.k + 1) =>
       LET generation == tokenize(parser.current)
           n == parser.k + 1
           appended == SubSeq(parser'.result, Len(parser.result) + 1, Len(parser'.result))
           cands == Candidates(parser.rules, generation, n)
           positive == {k \in cands : Weight(parser.rules[k]) > 0}
           before(k) == WeightOf(parser.rules, {j \in cands : j < k})
           upto(k) == WeightOf(parser.rules, {j \in cands : j <= k})
           total == WeightOf(parser.rules, cands)
       IN ((\E k \in cands : parser.rules[k].probability # NoProb) /\ positive # {}) =>
            \E k \in positive :
              /\ appended = parser.rules[k].successor
              /\ \E value \in NextDraws(parser.random) :
                   /\ RandDen * before(k) <= value * total
                   /\ value * total <= RandDen * upto(k)]_vars

\* C22: @ with a numeric argument sets the step length to that argument,
\* whatever its value; @ without an argument multiplies the step length by
\* lengthDecay; F, G, f and g without an argument move by the step length in
\* effect.
C22_StepLength ==
  [][(turtle.pc = "loop" /\ turtle'.pc = "loop") =>
       LET char == turtle.str[turtle.i + 1]
           hasParam == ReadParam(turtle.str, turtle.i)[1]
           param == ReadParam(turtle.str, turtle.i)[2]
       IN /\ (char = "@" /\ hasParam /\ param # NaN)
               => turtle'.currentStepLength = param
          /\ (char = "@" /\ ~hasParam)
               => turtle'.currentStepLength =
                    turtle.currentStepLength * turtle.params.lengthDecay
          /\ (char \in {"F", "G", "f", "g"} /\ ~hasParam)
               => turtle'.state.position =
                    vec2Add(turtle.state.position,
                            vec2Scale(turtle.state.heading, turtle.currentStepLength))
          /\ char # "@" => turtle'.currentStepLength = turtle.currentStepLength]_vars

\* the pairs <<source, target>> of the connections
Edges(e) == {<<e.connections[k].from.node, e.connections[k].to.node>> : k \in DOMAIN e.connections}

\* some node can reach itself along one or more connections
HasCycle(e) ==
  \E n \in NodeKeys(e) \cup {c[1] : c \in Edges(e)} :
    \E m \in {c[2] : c \in {d \in Edges(e) : d[1] = n}} :
      n \in Downstream(e.connections, {m}, {})

\* adding the connection c would close a cycle: its target is its source, or
\* its source can be reached from its target
ClosesCycle(e, c) ==
  c.from.node = c.to.node \/ c.from.node \in Downstream(e.connections, {c.to.node}, {})

\* C23: the connection graph is acyclic after every sequence of edits;
\* addConnection returns false and changes neither nodes nor connections when
\* the connection would close a cycle (a node connected to itself included),
\* and a connection for which it returns true was added without closing one.
C23_Acyclic ==
  /\ [](~HasCycle(engine))
  /\ [][engine'.op = "addConnection" =>
          /\ ClosesCycle(engine, engine'.argument) => ~engine'.returned
          /\ ~engine'.returned =>
               engine'.nodes = engine.nodes /\ engine'.connections = engine.connections
          /\ engine'.returned =>
               /\ engine'.connections # <<>>
               /\ Last(engine'.connections) = engine'.argument]_vars

\* C23 witness: with n2 feeding n3, the connection from n3 back to n2 was
\* refused
C23_Witness ==
  /\ engine.op = "addConnection" /\ ~engine.returned
  /\ engine.argument = Connection(<<"n3", "n2", "a">>, "n3", "out", "n2", "a")
  /\ <<"n2", "n3">> \in Edges(engine)

\* C24: the executionOrder compile returns holds every current node exactly
\* once, with the source of every current connection before its target; a
\* compilation cached before a node or connection was added or removed is
\* not what compile returns.
C24_ExecutionOrder ==
  engine.op = "compile" =>
    LET order == engine.compiledGraph.executionOrder
    IN /\ engine.compiledGraph.present
       /\ Range(order) = NodeKeys(engine)
       /\ Len(order) = Cardinality(NodeKeys(engine))
       /\ \A c \in Edges(engine) :
            \E i, j \in DOMAIN order : i < j /\ order[i] = c[1] /\ order[j] = c[2]

\* C24 witness: compile returned an order of three connected nodes that is
\* not the order they were added in
C24_Witness ==
  /\ engine.op = "compile"
  /\ Cardinality(NodeKeys(engine)) = 3
  /\ Cardinality(Edges(engine)) >= 2
  /\ engine.compiledGraph.executionOrder # [k \in DOMAIN engine.nodes |-> engine.nodes[k].id]

\* after the step the node id and every node downstream of it are dirty
Dirtied(id) ==
  ({id} \cup Downstream(engine'.connections, {id}, {})) \subseteq engine'.dirtyNodes

\* C25: after a parameter update of a node, after a connection into a node is
\* added or removed, and after a node feeding it is removed, the node and
\* every node downstream of it are in the dirty set; nothing but clearDirty
\* takes a node out of the dirty set.
C25_DirtyPropagation ==
  [][/\ \A id \in NodeKeys(engine) :
          engine' = updateNodeParameter(engine, id) => Dirtied(id)
     /\ \A c \in GraphConnections :
          engine' = addConnection(engine, c) /\ engine'.returned => Dirtied(c.to.node)
     /\ \A c \in Range(engine.connections) :
          engine' = removeConnection(engine, c.id) => Dirtied(c.to.node)
     /\ \A id \in NodeKeys(engine) :
          engine' = removeNode(engine, id) =>
            \A c \in Edges(engine) : c[1] = id /\ c[2] # id => Dirtied(c[2])
     /\ engine' # clearDirty(engine) => engine.dirtyNodes \subseteq engine'.dirtyNodes]_vars

\* a <= b as the comparison of two numbers: false when either is NaN
NLe(a, b) == a # NaN /\ b # NaN /\ a <= b

\* the bounds of g are the tight axis-aligned bounding box of its nodes
TightBounds(g) ==
  g.nodes # <<>> =>
    /\ \A id \in DOMAIN g.nodes :
         /\ NLe(g.bounds.min.x, g.nodes[id].position.x)
         /\ NLe(g.nodes[id].position.x, g.bounds.max.x)
         /\ NLe(g.bounds.min.y, g.nodes[id].position.y)
         /\ NLe(g.nodes[id].position.y, g.bounds.max.y)
    /\ \E id \in DOMAIN g.nodes : g.nodes[id].position.x = g.bounds.min.x
    /\ \E id \in DOMAIN g.nodes : g.nodes[id].position.y = g.bounds.min.y
    /\ \E id \in DOMAIN g.nodes : g.nodes[id].position.x = g.bounds.max.x
    /\ \E id \in DOMAIN g.nodes : g.nodes[id].position.y = g.bounds.max.y

\* C26: the bounds of every generated Branch Graph with at least one node are
\* the tight bounding box of its nodes: every node position lies within
\* [min, max] on both axes, and each of the four extremes is the coordinate
\* of some node.
C26_TightBounds ==
  /\ turtle.pc = "done" => TightBounds(TurtleGraph)
  /\ solver.pc = "done" => TightBounds(solver.graph)

\* C27: during run() an inactive attractor is never reactivated and never
\* influences a node again, and a node once created is never removed or
\* re-parented: from one iteration to the next the active attractors only
\* shrink and the node table only grows.
C27_MonotoneGrowth ==
  [][solver.pc = "run" =>
       /\ Len(solver'.attractors) = Len(solver.attractors)
       /\ \A a \in DOMAIN solver.attractors :
            /\ solver'.attractors[a].position = solver.attractors[a].position
            /\ solver'.attractors[a].active => solver.attractors[a].active
       /\ Len(solver'.nodes) >= Len(solver.nodes)
       /\ \A k \in DOMAIN solver.nodes :
            /\ solver'.nodes[k].id = solver.nodes[k].id
            /\ solver'.nodes[k].position = solver.nodes[k].position
            /\ solver'.nodes[k].parent = solver.nodes[k].parent
            /\ SubSeq(solver'.nodes[k].children, 1, Len(solver.nodes[k].children))
                 = solver.nodes[k].children
            /\ solver'.executed = solver.executed + 1 =>
                 solver'.nodes[k].influenceCount =
                   Cardinality({a \in DOMAIN solver.attractors :
                                  /\ solver.attractors[a].active
                                  /\ k \in Influenced(solver.nodes, solver.attractors[a],
                                                      solver.config.parameters.attractionDistance)})]_vars

\* C27 witness: the attractor at distance 1 went inactive in the first
\* iteration, and two more iterations ran for the attractor at distance 3
C27_Witness ==
  /\ solver.pc = "run" /\ solver.executed = 3 /\ Len(solver.nodes) = 4
  /\ solver.attractors = <<[position |-> Vec(1, 0), active |-> FALSE],
                           [position |-> Vec(3, 0), active |-> FALSE]>>

\* C28: a graph handed to the progress callback is a snapshot of its own:
\* no later iteration of the run changes its node table or the children
\* list of any of its nodes, so every child id one of its nodes lists is in
\* its node table.
C28_SnapshotIndependent ==
  /\ [](\A r \in DOMAIN solver.reports :
          \A id \in DOMAIN solver.reports[r].graph.nodes :
            Range(solver.reports[r].graph.nodes[id].children)
              \subseteq DOMAIN solver.reports[r].graph.nodes)
  /\ [][\A r \in DOMAIN solver.reports :
          solver'.reports[r].graph.nodes = solver.reports[r].graph.nodes]_vars

\* C29: over any sequence of acquire, release and releaseAll, no framebuffer
\* is in use and in the pool at once, acquire returns no framebuffer that is
\* still in use, and the release of a framebuffer that is not in use (a second
\* release included) changes nothing.
C29_PoolSafety ==
  /\ [](pool.pc = "on" =>
          /\ pool.inUse \cap Pooled(pool) = {}
          /\ \A fb \in DOMAIN pool.fbs \ pool.inUse : release(pool, fb) = pool)
  /\ [][\A options \in PoolOptions :
          (pool.pc = "on" /\ pool' = acquire(pool, options)) =>
            pool'.last.fb \notin pool.inUse /\ pool'.last.fb \in pool'.inUse]_vars

\* C29 witness: one framebuffer has been released to the pool while another
\* is in use
C29_Witness ==
  pool.pc = "on" /\ Pooled(pool) # {} /\ pool.inUse # {}

====
